---- MODULE Spec2Model ----
(***************************************************************************)
(* nola-buddy-api: the time-window, date-text and analysis logic of the    *)
(* Express backend (src/server.js and its two sibling copies).             *)
(*                                                                         *)
(* Instants are JavaScript Date values: whole milliseconds.  They are      *)
(* counted from 2024-06-15T00:00:00.000Z so that they fit TLC's integers;  *)
(* the modelled range (June 2024) holds no daylight-saving transition, so  *)
(* America/Chicago is at UTC-5 throughout.                                 *)
(***************************************************************************)
EXTENDS Integers, Sequences, FiniteSets, TLC

VARIABLES
    clock,       \* the system clock: what `new Date()` / Date.now() reads
    hostOffset,  \* UTC offset (ms) of the process-local zone used by new Date(y,m,d,..)
    wcall,       \* the last call of a window helper: <<>> or <<[fn, now, ret]>>
    hcall,       \* the last call of a page helper: <<>> or <<[fn, page, .., ret]>>
    build,       \* the source copy that is deployed: "server.js" or "part_000"
    payload,     \* the request body handed to buildActionBaseProperties
    props,       \* its outcome: <<>> before the call, then <<[status, value]>>
    tpc,         \* POST /analysis/today: "idle", "findDb", "query" or "done"
    twin,        \* its window { startISO, endISO, y, m, d }, once computed
    tnow,        \* its `now`, read after the query has returned
    titems,      \* its `items` array (sorted in place)
    ttimed,      \* its `scheduledTimed` array (sorted in place)
    tresp,       \* its response: <<>> or <<[status, body]>>
    ppc,         \* POST /analysis/7day and /analysis/period: "idle", "findDb", "query", "done"
    preq,        \* the request: <<>> or <<[kind, body]>>
    pwin,        \* the window { startISO, endISO } sent with the query
    pnow,        \* Date.now(), read after the query has returned
    pitems,      \* the handler's `items` array
    presp,       \* its response: <<>> or <<[status, body]>>
    reqs,        \* /analysis requests in flight together: request id -> its locals
    book,        \* the spreadsheet of the notes: its sheets, each with its rows
    ncalls,      \* /notes requests in flight together: call id -> its locals
    base,        \* the Action Base database: <<>> when not shared, or <<its pages>>
    alast        \* the last /actionBase write request: <<>> or <<[endpoint, .., status]>>

envVars == <<clock, hostOffset>>
propsVars == <<build, payload, props>>
todayVars == <<tpc, twin, tnow, titems, ttimed, tresp>>
periodVars == <<ppc, preq, pwin, pnow, pitems, presp>>
notesVars == <<book, ncalls>>
actionVars == <<base, alast>>
vars == <<clock, hostOffset, wcall, hcall, propsVars, todayVars, periodVars, reqs,
          notesVars, actionVars>>

\* What the actions of one part of the model leave alone.
restWindow == <<hcall, propsVars, todayVars, periodVars, reqs, notesVars, actionVars>>
restProps == <<envVars, wcall, hcall, todayVars, periodVars, reqs, notesVars, actionVars>>
restToday == <<hostOffset, wcall, hcall, propsVars, periodVars, reqs, notesVars, actionVars>>
restPeriod == <<hostOffset, wcall, hcall, propsVars, todayVars, reqs, notesVars, actionVars>>
restHelper == <<hostOffset, wcall, propsVars, todayVars, periodVars, reqs, notesVars, actionVars>>
restRequests == <<hostOffset, wcall, hcall, propsVars, todayVars, periodVars,
                  notesVars, actionVars>>
restNotes == <<hostOffset, wcall, hcall, propsVars, todayVars, periodVars, reqs, actionVars>>
restAction == <<envVars, wcall, hcall, propsVars, todayVars, periodVars, reqs, notesVars>>

None == <<>>
Some(x) == <<x>>

---------------------------------------------------------------------------
(* Units of the JavaScript Date arithmetic.                                *)

MS_PER_SEC  == 1000
MS_PER_MIN  == 60000
MS_PER_HOUR == 3600 * 1000
SEC_PER_DAY == 24 * 3600
MS_PER_DAY  == SEC_PER_DAY * MS_PER_SEC

\* An instant given as day number, hour, minute, second, millisecond (UTC).
At(day, h, mi, s, ms) ==
    day * MS_PER_DAY + h * MS_PER_HOUR + mi * MS_PER_MIN + s * MS_PER_SEC + ms

\* TZ = process.env.TZ || 'America/Chicago': the zone's UTC offset in June 2024.
TZOffset == -5 * MS_PER_HOUR

\* The calendar date of a day number; day 0 is 2024-06-15 (valid within June 2024).
CivilDate(day) == [y |-> 2024, m |-> 6, d |-> 15 + day]

\* Date.prototype.toISOString: the UTC fields of an instant, milliseconds included.
toISOString(t) ==
    LET day == t \div MS_PER_DAY
        r   == t % MS_PER_DAY
    IN  [date |-> CivilDate(day),
         h    |-> r \div MS_PER_HOUR,
         mi   |-> (r % MS_PER_HOUR) \div MS_PER_MIN,
         s    |-> (r % MS_PER_MIN) \div MS_PER_SEC,
         ms   |-> r % MS_PER_SEC]

\* now.toLocaleString('en-US', { timeZone: TZ }): the civil date and time of day
\* in TZ, printed to the second ("6/15/2024, 1:00:00 PM"); milliseconds are dropped.
toLocaleString(t) ==
    LET ws == (t + TZOffset) \div MS_PER_SEC
    IN  [day |-> ws \div SEC_PER_DAY, sod |-> ws % SEC_PER_DAY]

\* new Date(y, m, d, h, mi, s) and new Date("6/15/2024, 1:00:00 PM"): civil fields
\* read as a time of the process-local zone.
LocalDate(day, sod, host) == (day * SEC_PER_DAY + sod) * MS_PER_SEC - host

\* getFullYear()/getMonth()/getDate(): the day number of an instant in the
\* process-local zone.
LocalDay(t, host) == (t + host) \div MS_PER_DAY

\* startEndOfToday(), with `now` the clock reading and `host` the local zone.
startEndOfToday(now, host) ==
    LET loc        == toLocaleString(now)
        chic       == LocalDate(loc.day, loc.sod, host)
        delta      == now - chic
        day        == LocalDay(chic, host)
        startLocal == LocalDate(day, 0, host)
        endLocal   == LocalDate(day, 23 * 3600 + 59 * 60 + 59, host)
        start      == startLocal + delta
        end        == endLocal + delta
    IN  [start |-> start, end |-> end,
         startISO |-> toISOString(start), endISO |-> toISOString(end),
         ymd |-> CivilDate(day)]

\* A slip in the direction of the seven-day step: the end falls a week back.
next7WindowBackwards(now, now2, host) ==
    LET loc      == toLocaleString(now)
        chic     == LocalDate(loc.day, loc.sod, host)
        delta    == now - chic
        endChic  == chic - 7 * MS_PER_DAY
        endLocal == LocalDate(LocalDay(endChic, host), 23 * 3600 + 59 * 60 + 59, host)
        endUTC   == endLocal + delta
    IN  [start |-> now2, end |-> endUTC,
         startISO |-> toISOString(now2), endISO |-> toISOString(endUTC)]

\* next7Window(): `now` is the first clock reading, `now2` the second one, taken
\* by the `new Date()` of the return statement.
next7Window(now, now2, host) ==
    LET loc      == toLocaleString(now)
        chic     == LocalDate(loc.day, loc.sod, host)
        delta    == now - chic
        endChic  == chic + 7 * MS_PER_DAY
        endLocal == LocalDate(LocalDay(endChic, host), 23 * 3600 + 59 * 60 + 59, host)
        endUTC   == endLocal + delta
    IN  [start |-> now2, end |-> endUTC,
         startISO |-> toISOString(now2), endISO |-> toISOString(endUTC)]

---------------------------------------------------------------------------
(* The window helpers called at the instants of a small calendar.          *)

MaxDrift == 1   \* ms that may pass between the two clock readings of next7Window

HostOffsets == {0, TZOffset}   \* the host runs in UTC, or in TZ itself

WindowClock ==
    { At(0, 4, 59, 59, 999),   \* 2024-06-14 23:59:59.999 in Chicago
      At(0, 5, 0, 0, 0),       \* 2024-06-15 00:00:00.000 in Chicago
      At(0, 5, 0, 0, 1),
      At(0, 18, 0, 0, 0),      \* 2024-06-15T18:00:00Z
      At(0, 18, 0, 0, 250),
      At(1, 3, 30, 15, 500),   \* 2024-06-15 22:30:15.500 in Chicago
      At(1, 4, 59, 59, 0),     \* 2024-06-15 23:59:59.000 in Chicago
      At(1, 4, 59, 59, 999),
      At(2, 12, 0, 0, 0) }

\* The parts of the state a specification does not exercise stay at rest.
EnvIdle == clock = 0 /\ hostOffset = 0
WindowIdle == wcall = None
HelperIdle == hcall = None
RequestsIdle == reqs = <<>>
NotesIdle == book = <<>> /\ ncalls = <<>>
ActionIdle == base = None /\ alast = None
PropsIdle == build = "server.js" /\ payload = None /\ props = None
TodayIdle ==
    /\ tpc = "idle" /\ twin = None /\ tnow = None
    /\ titems = <<>> /\ ttimed = <<>> /\ tresp = None
PeriodIdle ==
    /\ ppc = "idle" /\ preq = None /\ pwin = None
    /\ pnow = None /\ pitems = <<>> /\ presp = None

InitWindow ==
    /\ clock \in WindowClock
    /\ hostOffset \in HostOffsets
    /\ wcall = None
    /\ HelperIdle /\ PropsIdle /\ TodayIdle /\ PeriodIdle /\ RequestsIdle /\ NotesIdle /\ ActionIdle

ClockAdvance ==
    /\ \E t \in WindowClock : t > clock /\ clock' = t
    /\ UNCHANGED <<hostOffset, wcall, restWindow>>

CallStartEndOfToday ==
    /\ wcall' = Some([fn |-> "startEndOfToday", now |-> clock,
                      ret |-> startEndOfToday(clock, hostOffset)])
    /\ UNCHANGED <<clock, hostOffset, restWindow>>

CallNext7Window ==
    \E drift \in 0..MaxDrift :
        /\ clock \in WindowClock
        /\ clock' = clock + drift
        /\ wcall' = Some([fn |-> "next7Window", now |-> clock,
                          ret |-> next7Window(clock, clock + drift, hostOffset)])
        /\ UNCHANGED <<hostOffset, restWindow>>

NextWindow == ClockAdvance \/ CallStartEndOfToday \/ CallNext7Window

SpecWindow == InitWindow /\ [][NextWindow]_vars

---------------------------------------------------------------------------
(* Claims about the window helpers (checked under SpecWindow).             *)

\* The civil day number, in TZ, of an instant.
CivilDayOf(t) == (t + TZOffset) \div MS_PER_DAY
\* The instant at which the civil time h:mi:s of a civil day shows in TZ.
CivilInstant(day, h, mi, s) == At(day, h, mi, s, 0) - TZOffset

\* C4: for every reference instant startEndOfToday returns exactly civil 00:00:00
\* and civil 23:59:59 of the reference's civil date in TZ as absolute instants; for
\* the reference 2024-06-15T18:00:00Z these are 2024-06-15T05:00:00Z and
\* 2024-06-16T04:59:59Z.
C4_TodayWindowExact ==
    \A i \in 1..Len(wcall) :
        LET c == wcall[i] IN
        c.fn = "startEndOfToday" =>
            /\ c.ret.start = CivilInstant(CivilDayOf(c.now), 0, 0, 0)
            /\ c.ret.end = CivilInstant(CivilDayOf(c.now), 23, 59, 59)
            /\ c.now = At(0, 18, 0, 0, 0) =>
                  /\ c.ret.startISO = [date |-> [y |-> 2024, m |-> 6, d |-> 15],
                                       h |-> 5, mi |-> 0, s |-> 0, ms |-> 0]
                  /\ c.ret.endISO = [date |-> [y |-> 2024, m |-> 6, d |-> 16],
                                     h |-> 4, mi |-> 59, s |-> 59, ms |-> 0]

\* C9: every window returned by startEndOfToday or next7Window has
\* start <= end.
C9_WindowOrdered ==
    \A i \in 1..Len(wcall) : wcall[i].ret.start <= wcall[i].ret.end

\* A seven-day window whose start was read after the instant its end was
\* computed from.
C9_Witness ==
    /\ wcall # None
    /\ wcall[1].fn = "next7Window"
    /\ wcall[1].ret.start > wcall[1].now

\* C10: next7Window returns start = the reference instant and end = civil
\* 23:59:59 of the civil date seven days after the reference's civil date in TZ.
\* (The start is allowed to be the later of the two clock readings.)
C10_Next7Exact ==
    \A i \in 1..Len(wcall) :
        LET c == wcall[i] IN
        c.fn = "next7Window" =>
            /\ c.ret.start \in c.now .. (c.now + MaxDrift)
            /\ c.ret.end = CivilInstant(CivilDayOf(c.now) + 7, 23, 59, 59)

---------------------------------------------------------------------------
(* Pages of the "Action Base" database and the helpers that read them.     *)
(* A page is [id, properties]; a property is a record tagged with `type`.  *)
(* A date's start is held as the instant its ISO text denotes.             *)

RECURSIVE JoinPlain(_)
JoinPlain(title) ==
    IF title = <<>> THEN "" ELSE title[1].plain_text \o JoinPlain(Tail(title))

\* readProp(page, key): null is None, a value v is Some(v).  page.properties?.[key]
\* is undefined when the page has no properties or the properties have no such key.
readProp(page, key) ==
    IF "properties" \notin DOMAIN page \/ key \notin DOMAIN page.properties THEN None
    ELSE LET p == page.properties[key] IN
         CASE p.type = "date"     -> p.date
           [] p.type = "status"   -> IF p.status = None \/ p.status[1].name = ""
                                     THEN None ELSE Some(p.status[1].name)
           [] p.type = "select"   -> IF p.select = None \/ p.select[1].name = ""
                                     THEN None ELSE Some(p.select[1].name)
           [] p.type = "relation" -> Some([i \in 1..Len(p.relation) |-> p.relation[i].id])
           [] p.type = "title"    -> Some(JoinPlain(p.title))
           [] OTHER               -> None

\* readProp with p.status.name and p.select.name read without the ?. guard: a
\* null status or select raises a TypeError.
readPropThrowsUnguarded(page, key) ==
    /\ "properties" \in DOMAIN page /\ key \in DOMAIN page.properties
    /\ LET p == page.properties[key] IN
       \/ p.type = "status" /\ p.status = None
       \/ p.type = "select" /\ p.select = None
       \/ p.type = "relation" /\ \E i \in 1..Len(p.relation) : p.relation[i] = None
       \/ p.type = "title" /\ \E i \in 1..Len(p.title) : p.title[i] = None

\* Whether readProp(page, key) raises a TypeError.  Every member access is
\* guarded by ?. or || except r.id and t.plain_text inside the two map calls,
\* which fail on an array element that is null.
readPropThrows(page, key) ==
    /\ "properties" \in DOMAIN page /\ key \in DOMAIN page.properties
    /\ LET p == page.properties[key] IN
       \/ p.type = "relation" /\ \E i \in 1..Len(p.relation) : p.relation[i] = None
       \/ p.type = "title" /\ \E i \in 1..Len(p.title) : p.title[i] = None

\* readProp(page, key) || ''
OrEmpty(v) == IF v = None THEN "" ELSE v[1]

\* readProp(page, key)?.start || null
StartOf(v) == IF v = None THEN None ELSE Some(v[1].start)

\* readProp(page, 'Name') || '(Untitled)'
NameOrUntitled(page) ==
    LET n == readProp(page, "Name") IN
    IF n = None \/ n[1] = "" THEN "(Untitled)" ELSE n[1]

\* coachWhyMatters with the type tested before the priority.
coachWhyMattersTypeFirst(page) ==
    LET t  == OrEmpty(readProp(page, "Type"))
        pr == OrEmpty(readProp(page, "Priority Level"))
    IN  CASE t = "Event"  -> "Time-bound; missing it creates downstream delays."
          [] t = "Call"   -> "Maintains momentum and unblocks next steps."
          [] pr = "HIGH"  -> "High-impact lever - moves a top outcome forward."
          [] OTHER        -> "Keeps your cadence strong and reduces task spillover."

coachWhyMatters(page) ==
    LET t  == OrEmpty(readProp(page, "Type"))
        pr == OrEmpty(readProp(page, "Priority Level"))
    IN  CASE pr = "HIGH" -> "High-impact lever - moves a top outcome forward."
          [] t = "Event" -> "Time-bound; missing it creates downstream delays."
          [] t = "Call"  -> "Maintains momentum and unblocks next steps."
          [] OTHER       -> "Keeps your cadence strong and reduces task spillover."

coachNextMove(page) ==
    LET t == OrEmpty(readProp(page, "Type")) IN
    CASE t = "Call"  -> "Confirm agenda + dial in five minutes early."
      [] t = "Event" -> "Skim notes + prep one question to ask."
      [] OTHER       -> "Define the first 10-minute action and start it."

coachFixNow == "Do the smallest unblocked step right now and log it in the page."

\* getPrimaryWhen(page): { which, date }
getPrimaryWhen(page) ==
    LET dd  == StartOf(readProp(page, "Do Date"))
        due == StartOf(readProp(page, "Due Date"))
    IN  [which |-> IF dd # None THEN "do" ELSE "due",
         date  |-> IF dd # None THEN dd ELSE due]

\* dt.toLocaleString('en-US', { timeZone: TZ, hour: 'numeric', minute: '2-digit' })
TimeLabel(t) ==
    LET sod == toLocaleString(t).sod
        h   == sod \div 3600
        mi  == (sod % 3600) \div 60
    IN  ToString(((h + 11) % 12) + 1) \o ":" \o ToString(mi \div 10) \o ToString(mi % 10)
            \o (IF h < 12 THEN " AM" ELSE " PM")

\* asCoachLine with a reminder suggested for an instant equal to `now` as well.
asCoachLineInclusive(page, which, now) ==
    LET name      == NameOrUntitled(page)
        type      == OrEmpty(readProp(page, "Type"))
        alignment == OrEmpty(readProp(page, "Alignment"))
        status    == OrEmpty(readProp(page, "Status"))
        dd        == StartOf(readProp(page, "Do Date"))
        due       == StartOf(readProp(page, "Due Date"))
        label     == IF which = "do" THEN "Do" ELSE "Due"
        dt        == IF which = "do" THEN dd ELSE due
        timeLabel == IF dt # None THEN TimeLabel(dt[1]) ELSE "no time"
    IN  [id   |-> page.id,
         line |-> <<name, label, timeLabel>>
                  \o (IF type # "" THEN <<type>> ELSE <<>>)
                  \o (IF alignment # "" THEN <<alignment>> ELSE <<>>)
                  \o <<"Status: " \o (IF status # "" THEN status ELSE "N/A")>>,
         why  |-> coachWhyMatters(page),
         next |-> coachNextMove(page),
         fix  |-> coachFixNow,
         suggestReminder |-> dt # None /\ dt[1] >= now]

\* asCoachLine with the alignment printed before the category.
asCoachLineAlignmentFirst(page, which, now) ==
    LET name      == NameOrUntitled(page)
        type      == OrEmpty(readProp(page, "Type"))
        alignment == OrEmpty(readProp(page, "Alignment"))
        status    == OrEmpty(readProp(page, "Status"))
        dd        == StartOf(readProp(page, "Do Date"))
        due       == StartOf(readProp(page, "Due Date"))
        label     == IF which = "do" THEN "Do" ELSE "Due"
        dt        == IF which = "do" THEN dd ELSE due
        timeLabel == IF dt # None THEN TimeLabel(dt[1]) ELSE "no time"
    IN  [id   |-> page.id,
         line |-> <<name, label, timeLabel>>
                  \o (IF alignment # "" THEN <<alignment>> ELSE <<>>)
                  \o (IF type # "" THEN <<type>> ELSE <<>>)
                  \o <<"Status: " \o (IF status # "" THEN status ELSE "N/A")>>,
         why  |-> coachWhyMatters(page),
         next |-> coachNextMove(page),
         fix  |-> coachFixNow,
         suggestReminder |-> dt # None /\ dt[1] > now]

\* asCoachLine(page, which, now).  The line is held as the sequence of its
\* segments, in the order in which the template prints them.
asCoachLine(page, which, now) ==
    LET name      == NameOrUntitled(page)
        type      == OrEmpty(readProp(page, "Type"))
        alignment == OrEmpty(readProp(page, "Alignment"))
        status    == OrEmpty(readProp(page, "Status"))
        dd        == StartOf(readProp(page, "Do Date"))
        due       == StartOf(readProp(page, "Due Date"))
        label     == IF which = "do" THEN "Do" ELSE "Due"
        dt        == IF which = "do" THEN dd ELSE due
        timeLabel == IF dt # None THEN TimeLabel(dt[1]) ELSE "no time"
    IN  [id   |-> page.id,
         line |-> <<name, label, timeLabel>>
                  \o (IF type # "" THEN <<type>> ELSE <<>>)
                  \o (IF alignment # "" THEN <<alignment>> ELSE <<>>)
                  \o <<"Status: " \o (IF status # "" THEN status ELSE "N/A")>>,
         why  |-> coachWhyMatters(page),
         next |-> coachNextMove(page),
         fix  |-> coachFixNow,
         suggestReminder |-> dt # None /\ dt[1] > now]

---------------------------------------------------------------------------
(* POST /analysis/today                                                    *)

MAX_SAFE_INTEGER == 2147483647   \* stands for 2^53 - 1: above every instant modelled
GAP_MINUTES == 60

\* prioRank[label] || 99 and statusRank[label] || 99
prioRank(label) ==
    CASE label = "HIGH" -> 1 [] label = "MID" -> 2 [] label = "LOW" -> 3
      [] label = "" -> 4 [] OTHER -> 99
statusRank(label) ==
    CASE label = "Not started" -> 1 [] label = "In progress" -> 2 [] label = "Done" -> 3
      [] label = "" -> 4 [] OTHER -> 99

\* getTime with the untimed pages ranked first instead of last.
getTimeUntimedFirst(page) ==
    LET w == getPrimaryWhen(page).date IN
    IF w # None THEN w[1] ELSE 0

getTime(page) ==
    LET w == getPrimaryWhen(page).date IN
    IF w # None THEN w[1] ELSE MAX_SAFE_INTEGER

\* The comparator handed to items.sort: priority, then time, then status.
compareItems(a, b) ==
    LET aP == prioRank(OrEmpty(readProp(a, "Priority Level")))
        bP == prioRank(OrEmpty(readProp(b, "Priority Level")))
        at == getTime(a)
        bt == getTime(b)
        aS == statusRank(OrEmpty(readProp(a, "Status")))
        bS == statusRank(OrEmpty(readProp(b, "Status")))
    IN  IF aP # bP THEN aP - bP
        ELSE IF at # bt THEN at - bt
        ELSE aS - bS

\* Array.prototype.sort is stable: an element goes behind every element that
\* does not compare greater than it.
InsertItem(sorted, x) ==
    LET later == {i \in 1..Len(sorted) : compareItems(sorted[i], x) > 0}
        k     == IF later = {} THEN Len(sorted) + 1
                 ELSE CHOOSE i \in later : \A j \in later : i <= j
    IN  SubSeq(sorted, 1, k - 1) \o <<x>> \o SubSeq(sorted, k, Len(sorted))

RECURSIVE sortItems(_)
sortItems(items) ==
    IF items = <<>> THEN <<>>
    ELSE InsertItem(sortItems(SubSeq(items, 1, Len(items) - 1)), items[Len(items)])

\* scheduledTimed.sort((a, b) => a.date - b.date)
InsertTimed(sorted, x) ==
    LET later == {i \in 1..Len(sorted) : sorted[i].date - x.date > 0}
        k     == IF later = {} THEN Len(sorted) + 1
                 ELSE CHOOSE i \in later : \A j \in later : i <= j
    IN  SubSeq(sorted, 1, k - 1) \o <<x>> \o SubSeq(sorted, k, Len(sorted))

\* The timed list left in the order of the partition loop.
sortTimedMissing(timed) == timed

RECURSIVE sortTimed(_)
sortTimed(timed) ==
    IF timed = <<>> THEN <<>>
    ELSE InsertTimed(sortTimed(SubSeq(timed, 1, Len(timed) - 1)), timed[Len(timed)])

\* One pass of `for (const page of items)` that forgets the untimed pages.
partitionStepDropsUntimed(acc, page, now) ==
    LET w == getPrimaryWhen(page) IN
    IF w.date # None
    THEN IF w.date[1] < now
         THEN [acc EXCEPT !.overdue = Append(@, asCoachLine(page, w.which, now))]
         ELSE LET line == asCoachLine(page, w.which, now) IN
              [acc EXCEPT !.scheduled = Append(@, line),
                          !.scheduledTimed = Append(@, [date |-> w.date[1], line |-> line])]
    ELSE acc

\* One pass of the loop that sends an instant equal to `now` to overdue.
partitionStepEqualOverdue(acc, page, now) ==
    LET w == getPrimaryWhen(page) IN
    IF w.date # None
    THEN IF w.date[1] <= now
         THEN [acc EXCEPT !.overdue = Append(@, asCoachLine(page, w.which, now))]
         ELSE LET line == asCoachLine(page, w.which, now) IN
              [acc EXCEPT !.scheduled = Append(@, line),
                          !.scheduledTimed = Append(@, [date |-> w.date[1], line |-> line])]
    ELSE [acc EXCEPT !.scheduled = Append(@, asCoachLine(page, "do", now))]

\* The loop body with every line formatted against "do", whatever instant
\* placed the item.
partitionStepDoAlways(acc, page, now) ==
    LET w == getPrimaryWhen(page) IN
    IF w.date # None
    THEN IF w.date[1] < now
         THEN [acc EXCEPT !.overdue = Append(@, asCoachLine(page, "do", now))]
         ELSE LET line == asCoachLine(page, "do", now) IN
              [acc EXCEPT !.scheduled = Append(@, line),
                          !.scheduledTimed = Append(@, [date |-> w.date[1], line |-> line])]
    ELSE [acc EXCEPT !.scheduled = Append(@, asCoachLine(page, "do", now))]

\* One pass of `for (const page of items)`: the page goes to overdue, or to
\* scheduled (and, when it has a time, to scheduledTimed as well).
partitionStep(acc, page, now) ==
    LET w == getPrimaryWhen(page) IN
    IF w.date # None
    THEN IF w.date[1] < now
         THEN [acc EXCEPT !.overdue = Append(@, asCoachLine(page, w.which, now))]
         ELSE LET line == asCoachLine(page, w.which, now) IN
              [acc EXCEPT !.scheduled = Append(@, line),
                          !.scheduledTimed = Append(@, [date |-> w.date[1], line |-> line])]
    ELSE [acc EXCEPT !.scheduled = Append(@, asCoachLine(page, "do", now))]

RECURSIVE partitionLoop(_, _, _)
partitionLoop(acc, items, now) ==
    IF items = <<>> THEN acc
    ELSE partitionLoop(partitionStep(acc, Head(items), now), Tail(items), now)

\* items.filter(p => (readProp(p, 'Priority Level') || '') !== 'HIGH')
\*      .slice(0, 2).map(p => readProp(p, 'Name'))
NotHigh(page) == OrEmpty(readProp(page, "Priority Level")) # "HIGH"

\* The suggestions taken from all items, HIGH ones included.
gapSuggestionsUnfiltered(items) ==
    LET n == IF Len(items) < 2 THEN Len(items) ELSE 2
    IN  [i \in 1..n |-> readProp(items[i], "Name")]

gapSuggestions(items) ==
    LET cand == SelectSeq(items, NotHigh)
        n    == IF Len(cand) < 2 THEN Len(cand) ELSE 2
    IN  [i \in 1..n |-> readProp(cand[i], "Name")]

\* The gap loop with a gap reported only for more than 60 minutes.
RECURSIVE gapLoopStrict(_, _, _)
gapLoopStrict(timed, i, items) ==
    IF i > Len(timed) - 1 THEN <<>>
    ELSE LET a == timed[i].date
             b == timed[i + 1].date
         IN  (IF b - a > GAP_MINUTES * MS_PER_MIN
              THEN <<[window |-> <<TimeLabel(a), TimeLabel(b)>>,
                      suggestions |-> gapSuggestions(items)]>>
              ELSE <<>>)
             \o gapLoopStrict(timed, i + 1, items)

\* The gap loop over the sorted scheduledTimed.  diffMin = (b - a) / 60000 is at
\* least 60 exactly when b - a is at least 60 * 60000 ms.
RECURSIVE gapLoop(_, _, _)
gapLoop(timed, i, items) ==
    IF i > Len(timed) - 1 THEN <<>>
    ELSE LET a == timed[i].date
             b == timed[i + 1].date
         IN  (IF b - a >= GAP_MINUTES * MS_PER_MIN
              THEN <<[window |-> <<TimeLabel(a), TimeLabel(b)>>,
                      suggestions |-> gapSuggestions(items)]>>
              ELSE <<>>)
             \o gapLoop(timed, i + 1, items)

quickTally(items) ==
    LET Count(its, Test(_)) == Len(SelectSeq(its, Test))
        isHigh(p)  == readProp(p, "Priority Level") = Some("HIGH")
        hasDue(p)  == StartOf(readProp(p, "Due Date")) # None
        hasDo(p)   == StartOf(readProp(p, "Do Date")) # None
        isNS(p)    == readProp(p, "Status") = Some("Not started")
        isIP(p)    == readProp(p, "Status") = Some("In progress")
        isDone(p)  == readProp(p, "Status") = Some("Done")
    IN  [total |-> Len(items), high |-> Count(items, isHigh),
         dueHard |-> Count(items, hasDue), doCount |-> Count(items, hasDo),
         statusMix |-> [notStarted |-> Count(items, isNS),
                        inProgress |-> Count(items, isIP),
                        done |-> Count(items, isDone)]]

\* overdue, scheduled and scheduledTimed once the partition loop has run and
\* scheduledTimed has been sorted.
todayLists(items, now) ==
    LET parts == partitionLoop([overdue |-> <<>>, scheduled |-> <<>>,
                                scheduledTimed |-> <<>>], items, now)
    IN  [parts EXCEPT !.scheduledTimed = sortTimed(@)]

\* The body of the 200 response, from the sorted items, `now` and the window.
todayBody(items, now, win) ==
    LET parts == todayLists(items, now)
    IN  [ok |-> TRUE,
         header |-> win.ymd,
         overdue |-> parts.overdue,
         scheduled |-> parts.scheduled,
         gaps |-> gapLoop(parts.scheduledTimed, 1, items),
         quickTally |-> quickTally(items)]

\* A page as the workspace returns it: every property of the database is
\* present, an unset one with a null value.
Page(name, prio, status, type, align, do, due) ==
    [id |-> 0,
     properties |->
        [k \in {"Name", "Priority Level", "Status", "Type", "Alignment",
                "Do Date", "Due Date"} |->
            CASE k = "Name"           -> [type |-> "title", title |-> <<[plain_text |-> name]>>]
              [] k = "Priority Level" -> [type |-> "select", select |->
                                            IF prio = None THEN None ELSE Some([name |-> prio[1]])]
              [] k = "Status"         -> [type |-> "status", status |->
                                            IF status = None THEN None ELSE Some([name |-> status[1]])]
              [] k = "Type"           -> [type |-> "select", select |->
                                            IF type = None THEN None ELSE Some([name |-> type[1]])]
              [] k = "Alignment"      -> [type |-> "select", select |->
                                            IF align = None THEN None ELSE Some([name |-> align[1]])]
              [] k = "Do Date"        -> [type |-> "date", date |->
                                            IF do = None THEN None ELSE Some([start |-> do[1]])]
              [] k = "Due Date"       -> [type |-> "date", date |->
                                            IF due = None THEN None ELSE Some([start |-> due[1]])]]]

\* q.results: the pages in the order of the response, each with its own id.
Results(pool, n) ==
    {[i \in 1..Len(r) |-> [r[i] EXCEPT !.id = i]] :
        r \in UNION {[1..k -> pool] : k \in 0..n}}

MaxItems == 3   \* pages in one query response

\* Times of day of 2024-06-15 in Chicago.
T0800 == At(0, 13, 0, 0, 0)
T0900 == At(0, 14, 0, 0, 0)
T0930 == At(0, 14, 30, 0, 0)
T1000 == At(0, 15, 0, 0, 0)
T1100 == At(0, 16, 0, 0, 0)
T1200 == At(0, 17, 0, 0, 0)

TodayPool ==
    { Page("alpha",   Some("HIGH"), Some("Not started"), Some("Call"),   Some("DEV ED"), Some(T0900), None),
      Page("bravo",   Some("MID"),  Some("Not started"), Some("Event"),  None,           Some(T0930), None),
      Page("charlie", Some("MID"),  Some("In progress"), None,           Some("DEV ED"), Some(T0930), None),
      Page("delta",   Some("MID"),  Some("Not started"), Some("Errand"), None,           None,        Some(T1100)),
      Page("echo",    Some("LOW"),  Some("Done"),        Some("Call"),   None,           Some(T1100), Some(T0900)),
      Page("",        None,         None,                None,           None,           None,        None),
      Page("golf",    Some("HIGH"), Some("Done"),        Some("Event"),  None,           Some(T1100), None),
      Page("hotel",   Some("MID"),  Some("Not started"), None,           None,           None,        None),
      Page("india",   None,         Some("In progress"), None,           Some("DEV ED"), None,        Some(T0930)),
      Page("juliet",  Some("LOW"),  None,                None,           None,           Some(T0900), None),
      Page("kilo",    Some("MID"),  Some("Done"),        None,           None,           Some(T1000), None),
      Page("lima",    Some("LOW"),  Some("In progress"), Some("Call"),   None,           None,        Some(T1000 - 1)) }

\* Clock readings of one day, and one of the day after: a fetch may return
\* after midnight.
TodayClock == {T0800, T0930, T0930 + 1, T1200, T0800 + MS_PER_DAY}

Init ==
    /\ clock \in TodayClock
    /\ hostOffset \in HostOffsets
    /\ TodayIdle
    /\ WindowIdle /\ HelperIdle /\ PropsIdle /\ PeriodIdle /\ RequestsIdle /\ NotesIdle /\ ActionIdle

\* Time passes while the handler awaits the workspace.
TodayTick ==
    /\ tpc \in {"findDb", "query"}
    /\ \E t \in TodayClock : t > clock /\ clock' = t
    /\ UNCHANGED <<todayVars, restToday>>

\* The request arrives: await findDatabaseByName('Action Base').
TodayRequest ==
    /\ tpc = "idle"
    /\ tpc' = "findDb"
    /\ UNCHANGED <<clock, twin, tnow, titems, ttimed, tresp, restToday>>

\* The search finds no such database: 404.
TodayDbMissing ==
    /\ tpc = "findDb"
    /\ tpc' = "done"
    /\ tresp' = Some([status |-> 404, body |-> [ok |-> FALSE]])
    /\ UNCHANGED <<clock, twin, tnow, titems, ttimed, restToday>>

\* The database is found: startEndOfToday(), then await the query.
TodayQuery ==
    /\ tpc = "findDb"
    /\ tpc' = "query"
    /\ twin' = Some(startEndOfToday(clock, hostOffset))
    /\ UNCHANGED <<clock, tnow, titems, ttimed, tresp, restToday>>

\* notion() throws on a response that is not ok: the catch answers 500.
TodayRemoteError ==
    /\ tpc \in {"findDb", "query"}
    /\ tpc' = "done"
    /\ tresp' = Some([status |-> 500, body |-> [ok |-> FALSE]])
    /\ UNCHANGED <<clock, twin, tnow, titems, ttimed, restToday>>

\* The handler answering 404 when the query returns no page.
TodayRespondEmptyIsError ==
    /\ tpc = "query"
    /\ \E results \in Results(TodayPool, MaxItems) :
          LET items == sortItems(results) IN
          /\ titems' = items
          /\ ttimed' = todayLists(items, clock).scheduledTimed
          /\ tresp' = IF items = <<>> THEN Some([status |-> 404, body |-> [ok |-> FALSE]])
                      ELSE Some([status |-> 200, body |-> todayBody(items, clock, twin[1])])
    /\ tnow' = Some(clock)
    /\ tpc' = "done"
    /\ UNCHANGED <<clock, twin, restToday>>

\* The query returns: now = new Date(), sort, partition, gaps, tally, respond.
TodayRespond ==
    /\ tpc = "query"
    /\ \E results \in Results(TodayPool, MaxItems) :
          LET items == sortItems(results) IN
          /\ titems' = items
          /\ ttimed' = todayLists(items, clock).scheduledTimed
          /\ tresp' = Some([status |-> 200, body |-> todayBody(items, clock, twin[1])])
    /\ tnow' = Some(clock)
    /\ tpc' = "done"
    /\ UNCHANGED <<clock, twin, restToday>>

Next ==
    \/ TodayTick \/ TodayRequest \/ TodayDbMissing \/ TodayQuery
    \/ TodayRemoteError \/ TodayRespond

Spec == Init /\ [][Next]_vars

---------------------------------------------------------------------------
(* The page helpers called on their own: readProp on pages as sparse as    *)
(* the workspace returns them, asCoachLine for both `which` and any `now`. *)

\* Property values of every kind the workspace has, set and unset.  Its arrays
\* (relation, title) hold objects, never null.
SparseProperties ==
    [k \in {"Name", "Blank", "Priority Level", "Type", "Status", "Stage", "Do Date",
            "Due Date", "Project Attribute", "People", "Notes", "Score"} |->
        CASE k = "Name"              -> [type |-> "title", title |-> <<[plain_text |-> "Call "],
                                                                       [plain_text |-> "Ann"]>>]
          [] k = "Blank"             -> [type |-> "title", title |-> <<>>]
          [] k = "Priority Level"    -> [type |-> "select", select |-> None]
          [] k = "Type"              -> [type |-> "select", select |-> Some([name |-> "Call"])]
          [] k = "Status"            -> [type |-> "status", status |-> None]
          [] k = "Stage"             -> [type |-> "status", status |-> Some([name |-> "Done"])]
          [] k = "Do Date"           -> [type |-> "date", date |-> None]
          [] k = "Due Date"          -> [type |-> "date", date |-> Some([start |-> T0900])]
          [] k = "Project Attribute" -> [type |-> "relation", relation |-> <<>>]
          [] k = "People"            -> [type |-> "relation",
                                         relation |-> <<[id |-> "p1"], [id |-> "p2"]>>]
          [] k = "Notes"             -> [type |-> "rich_text",
                                         rich_text |-> <<[plain_text |-> "n"]>>]
          [] k = "Score"             -> [type |-> "number", number |-> 7]]

\* Pages holding some of these properties, all of them, or no properties at all.
SparsePages ==
    {[id |-> 0]}
    \cup {[id |-> 0, properties |-> [k \in ks |-> SparseProperties[k]]] :
             ks \in {{}, {"Name"}, {"Priority Level", "Status", "Do Date"},
                     {"Type", "Stage", "Due Date", "People"},
                     {"Blank", "Project Attribute", "Notes", "Score"},
                     DOMAIN SparseProperties}}

ReadKeys == DOMAIN SparseProperties \cup {"Missing", "constructor"}

\* Pages for asCoachLine: every mix of priority, type, do start and due start,
\* and every mix of a set or unset name, status, type and alignment.
CoachPool ==
    {Page("item", pr, Some("Not started"), ty, None, do, due) :
        pr \in {None, Some("HIGH"), Some("MID")},
        ty \in {None, Some("Event"), Some("Call"), Some("Errand")},
        do \in {None, Some(T0900), Some(T0930), Some(T1100)},
        due \in {None, Some(T0900), Some(T0930)}}
    \cup
    {Page(nm, None, st, ty, al, do, None) :
        nm \in {"", "item"},
        st \in {None, Some("In progress")},
        ty \in {None, Some("Call")},
        al \in {None, Some("DEV ED")},
        do \in {None, Some(T0900)}}

CoachClock == {T0800, T0930, T1200}

InitHelpers ==
    /\ clock \in CoachClock
    /\ hostOffset \in HostOffsets
    /\ HelperIdle
    /\ WindowIdle /\ PropsIdle /\ TodayIdle /\ PeriodIdle /\ RequestsIdle /\ NotesIdle /\ ActionIdle

HelperTick ==
    /\ \E t \in CoachClock : t > clock /\ clock' = t
    /\ UNCHANGED <<hcall, restHelper>>

\* readProp(page, key) returns a value or raises.
CallReadProp ==
    /\ \E page \in SparsePages, key \in ReadKeys :
          hcall' = Some([fn |-> "readProp", page |-> page, arg |-> key, now |-> clock,
                         threw |-> readPropThrows(page, key),
                         ret |-> IF readPropThrows(page, key) THEN None
                                 ELSE readProp(page, key)])
    /\ UNCHANGED <<clock, restHelper>>

\* asCoachLine(page, which, now)
CallAsCoachLine ==
    /\ \E page \in CoachPool, which \in {"do", "due"} :
          hcall' = Some([fn |-> "asCoachLine", page |-> page, arg |-> which, now |-> clock,
                         threw |-> FALSE, ret |-> asCoachLine(page, which, clock)])
    /\ UNCHANGED <<clock, restHelper>>

NextHelpers == HelperTick \/ CallReadProp \/ CallAsCoachLine

SpecHelpers == InitHelpers /\ [][NextHelpers]_vars

---------------------------------------------------------------------------
(* POST /analysis/7day and POST /analysis/period                           *)

RISK_HOURS == 48
MaxArrayIndex == 12   \* the integer-like keys told apart (JavaScript: up to 2^32 - 2)

\* An object used as a map is the sequence of its [key, value] pairs in the
\* order in which the keys were created.
ObjHas(obj, k) == \E i \in 1..Len(obj) : obj[i].key = k
ObjGet(obj, k) == obj[CHOOSE i \in 1..Len(obj) : obj[i].key = k].value
ObjSet(obj, k, v) ==
    IF ObjHas(obj, k)
    THEN [i \in 1..Len(obj) |-> IF obj[i].key = k THEN [key |-> k, value |-> v] ELSE obj[i]]
    ELSE Append(obj, [key |-> k, value |-> v])

\* A key that is the canonical decimal text of an integer is an array index.
IsArrayIndex(k) == \E n \in 0..MaxArrayIndex : ToString(n) = k
ArrayIndex(k) == CHOOSE n \in 0..MaxArrayIndex : ToString(n) = k

\* The integer-like entries of an object, ascending by their number.
RECURSIVE IndexEntries(_, _)
IndexEntries(obj, n) ==
    IF n > MaxArrayIndex THEN <<>>
    ELSE (IF ObjHas(obj, ToString(n))
          THEN <<[key |-> ToString(n), value |-> ObjGet(obj, ToString(n))]>>
          ELSE <<>>)
         \o IndexEntries(obj, n + 1)

\* Object.entries(obj): the integer-like keys first, in ascending numeric order,
\* then the other keys in creation order.
NotIndexEntry(e) == ~IsArrayIndex(e.key)
ObjectEntries(obj) == IndexEntries(obj, 0) \o SelectSeq(obj, NotIndexEntry)

getPriority(p) == OrEmpty(readProp(p, "Priority Level"))
getStatus(p) == OrEmpty(readProp(p, "Status"))
getType(p) == OrEmpty(readProp(p, "Type"))
getAlign(p) == OrEmpty(readProp(p, "Alignment"))

\* new Date(pick).toLocaleString('en-US', { timeZone: TZ, month: '2-digit',
\*     day: '2-digit', hour: 'numeric', minute: '2-digit' })
DateTimeLabel(t) ==
    LET c == CivilDate(toLocaleString(t).day) IN
    ToString(c.m \div 10) \o ToString(c.m % 10) \o "/"
        \o ToString(c.d \div 10) \o ToString(c.d % 10) \o ", " \o TimeLabel(t)

\* line(page) of both handlers, as the sequence of its segments.
line(page) ==
    LET name      == NameOrUntitled(page)
        type      == getType(page)
        alignment == getAlign(page)
        status    == IF getStatus(page) # "" THEN getStatus(page) ELSE "N/A"
        pr        == IF getPriority(page) # "" THEN getPriority(page) ELSE "N/A"
        dd        == StartOf(readProp(page, "Do Date"))
        due       == StartOf(readProp(page, "Due Date"))
        which     == IF dd # None THEN "Do" ELSE "Due"
        pick      == IF dd # None THEN dd ELSE due
        dt        == IF pick # None THEN DateTimeLabel(pick[1]) ELSE "no time"
    IN  <<name, which, dt>>
        \o (IF type # "" THEN <<type>> ELSE <<>>)
        \o (IF alignment # "" THEN <<alignment>> ELSE <<>>)
        \o <<"Priority: " \o pr, "Status: " \o status>>

MapLine(items) == [i \in 1..Len(items) |-> line(items[i])]

\* items.reduce((m, p) => { const a = getAlign(p) || 'Unassigned';
\*                          m[a] = (m[a] || 0) + 1; return m; }, {})
RECURSIVE groupsReduce(_, _)
groupsReduce(m, items) ==
    IF items = <<>> THEN m
    ELSE LET a == IF getAlign(Head(items)) # "" THEN getAlign(Head(items)) ELSE "Unassigned"
             n == IF ObjHas(m, a) THEN ObjGet(m, a) ELSE 0
         IN  groupsReduce(ObjSet(m, a, n + 1), Tail(items))

\* Object.entries(groups).map(([alignment, count]) => ({ alignment, count }))
alignmentCheck(items) ==
    LET entries == ObjectEntries(groupsReduce(<<>>, items)) IN
    [i \in 1..Len(entries) |-> [alignment |-> entries[i].key, count |-> entries[i].value]]

\* The riskWatch filter of /analysis/7day with the boundary instant let in.
isRisk7dayInclusive(p, now) ==
    LET soon  == now + RISK_HOURS * MS_PER_HOUR
        doS   == StartOf(readProp(p, "Do Date"))
        dueS  == StartOf(readProp(p, "Due Date"))
        first == IF doS # None THEN doS ELSE dueS
    IN  getStatus(p) = "Not started" /\ first # None /\ first[1] <= soon

\* The riskWatch filter of /analysis/7day: t is Infinity when there is no date.
isRisk7day(p, now) ==
    LET soon  == now + RISK_HOURS * MS_PER_HOUR
        doS   == StartOf(readProp(p, "Do Date"))
        dueS  == StartOf(readProp(p, "Due Date"))
        first == IF doS # None THEN doS ELSE dueS
    IN  getStatus(p) = "Not started" /\ first # None /\ first[1] < soon

\* The riskWatch filter of /analysis/period with an item without dates let in.
isRiskPeriodUntimedIn(p, now) ==
    LET soon == now + RISK_HOURS * MS_PER_HOUR
        doS  == StartOf(readProp(p, "Do Date"))
        dd   == IF doS # None THEN doS ELSE StartOf(readProp(p, "Due Date"))
    IN  getStatus(p) = "Not started" /\ (IF dd # None THEN dd[1] < soon ELSE TRUE)

\* The riskWatch filter of /analysis/period.
isRiskPeriod(p, now) ==
    LET soon == now + RISK_HOURS * MS_PER_HOUR
        doS  == StartOf(readProp(p, "Do Date"))
        dd   == IF doS # None THEN doS ELSE StartOf(readProp(p, "Due Date"))
    IN  getStatus(p) = "Not started" /\ (IF dd # None THEN dd[1] < soon ELSE FALSE)

\* The sections of /analysis/7day with the unset priority left out of strategicWins.
sections7dayUnsetDropped(items, now) ==
    LET isHigh(p) == getPriority(p) = "HIGH"
        isWin(p)  == getPriority(p) = "MID" \/ getPriority(p) = "LOW"
        risk(p)   == isRisk7day(p, now)
    IN  [highPriority   |-> MapLine(SelectSeq(items, isHigh)),
         strategicWins  |-> MapLine(SelectSeq(items, isWin)),
         riskWatch      |-> MapLine(SelectSeq(items, risk)),
         alignmentCheck |-> alignmentCheck(items)]

sections7day(items, now) ==
    LET isHigh(p) == getPriority(p) = "HIGH"
        isWin(p)  == getPriority(p) = "MID" \/ getPriority(p) = "LOW" \/ getPriority(p) = ""
        risk(p)   == isRisk7day(p, now)
    IN  [highPriority   |-> MapLine(SelectSeq(items, isHigh)),
         strategicWins  |-> MapLine(SelectSeq(items, isWin)),
         riskWatch      |-> MapLine(SelectSeq(items, risk)),
         alignmentCheck |-> alignmentCheck(items)]

sectionsPeriod(items, now) ==
    LET isHigh(p) == getPriority(p) = "HIGH"
        isWin(p)  == getPriority(p) \in {"MID", "LOW", ""}
        risk(p)   == isRiskPeriod(p, now)
    IN  [highPriority   |-> MapLine(SelectSeq(items, isHigh)),
         strategicWins  |-> MapLine(SelectSeq(items, isWin)),
         riskWatch      |-> MapLine(SelectSeq(items, risk)),
         alignmentCheck |-> alignmentCheck(items)]

\* The copy of /analysis/7day in the other source file.
sections7dayV0(items, now) ==
    LET soon      == now + RISK_HOURS * MS_PER_HOUR
        isHigh(p) == getPriority(p) = "HIGH"
        isWin(p)  == getPriority(p) = "MID" \/ getPriority(p) = "LOW" \/ getPriority(p) = ""
        risk(p)   ==
            LET doStart  == StartOf(readProp(p, "Do Date"))
                dueStart == StartOf(readProp(p, "Due Date"))
                first    == IF doStart # None THEN doStart ELSE dueStart
            IN  getStatus(p) = "Not started" /\ first # None /\ first[1] < soon
    IN  [highPriority   |-> MapLine(SelectSeq(items, isHigh)),
         strategicWins  |-> MapLine(SelectSeq(items, isWin)),
         riskWatch      |-> MapLine(SelectSeq(items, risk)),
         alignmentCheck |-> alignmentCheck(items)]

\* The first copy of /analysis/period in the other source file.
sectionsPeriodV0(items, now) ==
    LET soon      == now + RISK_HOURS * MS_PER_HOUR
        isHigh(p) == getPriority(p) = "HIGH"
        isWin(p)  == getPriority(p) \in {"MID", "LOW", ""}
        risk(p)   ==
            LET doS == StartOf(readProp(p, "Do Date"))
                dd  == IF doS # None THEN doS ELSE StartOf(readProp(p, "Due Date"))
            IN  getStatus(p) = "Not started" /\ (IF dd # None THEN dd[1] < soon ELSE FALSE)
    IN  [highPriority   |-> MapLine(SelectSeq(items, isHigh)),
         strategicWins  |-> MapLine(SelectSeq(items, isWin)),
         riskWatch      |-> MapLine(SelectSeq(items, risk)),
         alignmentCheck |-> alignmentCheck(items)]

\* The second copy of /analysis/period in the other source file.
sectionsPeriodV1(items, now) ==
    LET soon      == now + RISK_HOURS * MS_PER_HOUR
        isHigh(p) == getPriority(p) = "HIGH"
        isWin(p)  == getPriority(p) \in {"MID", "LOW", ""}
        risk(p)   ==
            LET doS == StartOf(readProp(p, "Do Date"))
                dd  == IF doS # None THEN doS ELSE StartOf(readProp(p, "Due Date"))
            IN  getStatus(p) = "Not started" /\ (IF dd # None THEN dd[1] < soon ELSE FALSE)
    IN  [highPriority   |-> MapLine(SelectSeq(items, isHigh)),
         strategicWins  |-> MapLine(SelectSeq(items, isWin)),
         riskWatch      |-> MapLine(SelectSeq(items, risk)),
         alignmentCheck |-> alignmentCheck(items)]

MaxPeriodItems == 4   \* pages in one query response of these two handlers

\* Instants around the 48-hour horizon of the two clock readings.
H48 == RISK_HOURS * MS_PER_HOUR

PeriodPool ==
    { Page("ada",   Some("HIGH"), Some("Not started"), Some("Call"),  Some("A"), Some(T0800 + H48 - 1), None),
      Page("bob",   Some("MID"),  Some("Not started"), None,          None,      None,                  Some(T0800 + H48)),
      Page("cy",    Some("LOW"),  Some("Not started"), None,          Some("A"), None,                  None),
      Page("dee",   None,         Some("Done"),        Some("Event"), Some("B"), Some(T0900),           None),
      Page("eve",   Some("MID"),  Some("In progress"), None,          Some("7"), None,                  Some(T1200 + H48)),
      Page("fay",   Some("HIGH"), Some("Not started"), None,          Some("B"), Some(T1200 + H48),     Some(T0900)) }

PeriodClock == {T0800, T1200}

PeriodRequests ==
    {[kind |-> "7day", body |-> None]}
    \cup {[kind |-> "period", body |-> Some([startDate |-> a, endDate |-> b])] :
             a \in {None, Some("2024-06-15")}, b \in {None, Some("2024-06-17")}}

InitPeriod ==
    /\ clock \in PeriodClock
    /\ hostOffset \in HostOffsets
    /\ PeriodIdle
    /\ WindowIdle /\ HelperIdle /\ PropsIdle /\ TodayIdle /\ RequestsIdle /\ NotesIdle /\ ActionIdle

\* Time passes while a handler awaits the workspace.
PeriodTick ==
    /\ ppc \in {"findDb", "query"}
    /\ \E t \in PeriodClock : t > clock /\ clock' = t
    /\ UNCHANGED <<periodVars, restPeriod>>

\* A request arrives.  /analysis/period answers 400 without startDate and
\* endDate; otherwise the handler awaits findDatabaseByName('Action Base').
PeriodRequest ==
    /\ ppc = "idle"
    /\ \E r \in PeriodRequests :
          /\ preq' = Some(r)
          /\ IF r.kind = "period" /\ (r.body[1].startDate = None \/ r.body[1].endDate = None)
             THEN /\ ppc' = "done"
                  /\ presp' = Some([status |-> 400, body |-> [ok |-> FALSE]])
             ELSE /\ ppc' = "findDb"
                  /\ presp' = presp
    /\ UNCHANGED <<clock, pwin, pnow, pitems, restPeriod>>

PeriodDbMissing ==
    /\ ppc = "findDb"
    /\ ppc' = "done"
    /\ presp' = Some([status |-> 404, body |-> [ok |-> FALSE]])
    /\ UNCHANGED <<clock, preq, pwin, pnow, pitems, restPeriod>>

\* /analysis/7day: next7Window(), whose second clock reading may fall later.
Query7day ==
    /\ ppc = "findDb" /\ preq[1].kind = "7day"
    /\ \E drift \in 0..MaxDrift :
          /\ clock \in PeriodClock
          /\ clock' = clock + drift
          /\ pwin' = Some(LET w == next7Window(clock, clock + drift, hostOffset)
                          IN  [startISO |-> w.startISO, endISO |-> w.endISO])
    /\ ppc' = "query"
    /\ UNCHANGED <<preq, pnow, pitems, presp, restPeriod>>

\* /analysis/period: the window is the two dates with fixed UTC times of day.
QueryPeriod ==
    /\ ppc = "findDb" /\ preq[1].kind = "period"
    /\ pwin' = Some([startISO |-> preq[1].body[1].startDate[1] \o "T00:00:00Z",
                     endISO |-> preq[1].body[1].endDate[1] \o "T23:59:59Z"])
    /\ ppc' = "query"
    /\ UNCHANGED <<clock, preq, pnow, pitems, presp, restPeriod>>

PeriodRemoteError ==
    /\ ppc \in {"findDb", "query"}
    /\ ppc' = "done"
    /\ presp' = Some([status |-> 500, body |-> [ok |-> FALSE]])
    /\ UNCHANGED <<clock, preq, pwin, pnow, pitems, restPeriod>>

\* The query returns: the sections are computed and sent.
PeriodRespond ==
    /\ ppc = "query"
    /\ \E results \in Results(PeriodPool, MaxPeriodItems) :
          /\ pitems' = results
          /\ presp' = Some([status |-> 200,
                            body |-> [ok |-> TRUE,
                                      sections |-> IF preq[1].kind = "7day"
                                                   THEN sections7day(results, clock)
                                                   ELSE sectionsPeriod(results, clock)]])
    /\ pnow' = Some(clock)
    /\ ppc' = "done"
    /\ UNCHANGED <<clock, preq, pwin, restPeriod>>

NextPeriod ==
    \/ PeriodTick \/ PeriodRequest \/ PeriodDbMissing \/ Query7day \/ QueryPeriod
    \/ PeriodRemoteError \/ PeriodRespond

SpecPeriod == InitPeriod /\ [][NextPeriod]_vars

---------------------------------------------------------------------------
(* Several /analysis requests in flight together.  Node runs one handler  *)
(* at a time and switches between them only at an await, so a step is the  *)
(* code of one handler from one await to the next.                         *)

MaxRequests == 2    \* requests in flight together
MaxConcItems == 1   \* pages in one query response of these requests

RequestIds == 1..MaxRequests

\* 2024-06-15 08:00 and 2024-06-16 08:00 in Chicago.
ConcClock == {T0800, T0800 + MS_PER_DAY}

ConcPool ==
    { Page("ann", Some("HIGH"), Some("Not started"), Some("Call"), Some("A"), Some(T0930), None),
      Page("ben", None,         Some("Done"),        None,         None,      None,        Some(T0800 + MS_PER_DAY)) }

AnalysisRequests == {[kind |-> "today", body |-> None]} \cup PeriodRequests

\* The bindings of one run of a handler before its first statement.
Fresh ==
    [req |-> None, pc |-> "idle", win |-> None, now |-> None,
     results |-> <<>>, items |-> <<>>, resp |-> None, calls |-> <<>>]

\* notion(path, ...): one fetch is issued; it is pending until it settles.
notion(calls, path) == Append(calls, [path |-> path, outcome |-> "pending"])

\* The fetch settles: res.ok ("ok"), or !res.ok and the throw ("failed").
settle(calls, outcome) == [calls EXCEPT ![Len(calls)].outcome = outcome]

\* A window kept in one place for all requests: a run reads the window written
\* by the latest-numbered request that has one.
sharedWindow(rs, r) ==
    rs[CHOOSE q \in DOMAIN rs :
          /\ rs[q].win # None
          /\ \A u \in DOMAIN rs : rs[u].win # None => u <= q].win

\* const { startISO, endISO, y, m, d } of a run of /analysis/today: the run's own.
handlerWindow(rs, r) == rs[r].win

InitRequests ==
    /\ clock \in ConcClock
    /\ hostOffset = 0   \* one host zone: the zone is fixed for the life of the process
    /\ reqs = [r \in RequestIds |-> Fresh]
    /\ WindowIdle /\ HelperIdle /\ PropsIdle /\ TodayIdle /\ PeriodIdle
    /\ NotesIdle /\ ActionIdle

ReqTick ==
    /\ \E t \in ConcClock : t > clock /\ clock' = t
    /\ UNCHANGED <<reqs, restRequests>>

\* A request arrives.  /analysis/period answers 400 without startDate and
\* endDate; otherwise the handler issues the search and awaits it.
ReqArrive(r) ==
    /\ reqs[r].pc = "idle"
    /\ \E q \in AnalysisRequests :
          reqs' = [reqs EXCEPT ![r] =
              IF q.kind = "period" /\ (q.body[1].startDate = None \/ q.body[1].endDate = None)
              THEN [@ EXCEPT !.req = Some(q), !.pc = "done",
                             !.resp = Some([status |-> 400, body |-> [ok |-> FALSE]])]
              ELSE [@ EXCEPT !.req = Some(q), !.pc = "findDb",
                             !.calls = notion(@, "/search")]]
    /\ UNCHANGED <<clock, restRequests>>

\* The search settles without the database: 404.
ReqDbMissing(r) ==
    /\ reqs[r].pc = "findDb"
    /\ reqs' = [reqs EXCEPT ![r] =
          [@ EXCEPT !.pc = "done", !.calls = settle(@, "ok"),
                    !.resp = Some([status |-> 404, body |-> [ok |-> FALSE]])]]
    /\ UNCHANGED <<clock, restRequests>>

\* The search settles with the database: the window is computed (/analysis/today
\* keeps y, m, d for its header) and the query is issued and awaited.
ReqQuery(r) ==
    /\ reqs[r].pc = "findDb"
    /\ reqs' = [reqs EXCEPT ![r] =
          [@ EXCEPT !.pc = "query",
                    !.win = IF reqs[r].req[1].kind = "today"
                            THEN Some(startEndOfToday(clock, hostOffset)) ELSE None,
                    !.calls = notion(settle(@, "ok"), "/databases/query")]]
    /\ UNCHANGED <<clock, restRequests>>

\* A remote call that fails and is issued once more by the handler.
ReqRemoteErrorRetried(r) ==
    /\ reqs[r].pc \in {"findDb", "query"}
    /\ Len(reqs[r].calls) < 4
    /\ reqs' = [reqs EXCEPT ![r] =
          [@ EXCEPT !.calls = notion(settle(@, "failed"), @[Len(@)].path)]]
    /\ UNCHANGED <<clock, restRequests>>

\* The pending call fails: notion() throws and the catch answers 500.
ReqRemoteError(r) ==
    /\ reqs[r].pc \in {"findDb", "query"}
    /\ reqs' = [reqs EXCEPT ![r] =
          [@ EXCEPT !.pc = "done", !.calls = settle(@, "failed"),
                    !.resp = Some([status |-> 500, body |-> [ok |-> FALSE]])]]
    /\ UNCHANGED <<clock, restRequests>>

\* The query settles: the handler runs to its response without another await.
ReqRespond(r) ==
    /\ reqs[r].pc = "query"
    /\ \E results \in Results(ConcPool, MaxConcItems) :
          LET kind  == reqs[r].req[1].kind
              items == IF kind = "today" THEN sortItems(results) ELSE results
              body  == CASE kind = "today" ->
                              todayBody(items, clock, handlerWindow(reqs, r)[1])
                         [] kind = "7day" ->
                              [ok |-> TRUE, sections |-> sections7day(items, clock)]
                         [] kind = "period" ->
                              [ok |-> TRUE, sections |-> sectionsPeriod(items, clock)]
          IN  reqs' = [reqs EXCEPT ![r] =
                  [@ EXCEPT !.pc = "done", !.now = Some(clock), !.results = results,
                            !.items = items, !.calls = settle(@, "ok"),
                            !.resp = Some([status |-> 200, body |-> body])]]
    /\ UNCHANGED <<clock, restRequests>>

NextRequests ==
    \/ ReqTick
    \/ \E r \in RequestIds :
          \/ ReqArrive(r) \/ ReqDbMissing(r) \/ ReqQuery(r)
          \/ ReqRemoteError(r) \/ ReqRespond(r)

SpecRequests == InitRequests /\ [][NextRequests]_vars

---------------------------------------------------------------------------
(* Date text.  A JavaScript string is the sequence of its characters.      *)

Digit == <<"0", "1", "2", "3", "4", "5", "6", "7", "8", "9">>
IsDigit(ch) == \E i \in 1..10 : Digit[i] = ch

\* String.prototype.includes(ch)
includes(str, ch) == \E i \in 1..Len(str) : str[i] = ch

\* String.prototype.split(sep), sep a single character.
RECURSIVE split(_, _)
split(str, sep) ==
    IF ~includes(str, sep) THEN <<str>>
    ELSE LET i == CHOOSE k \in 1..Len(str) :
                     str[k] = sep /\ \A j \in 1..(k - 1) : str[j] # sep
         IN  <<SubSeq(str, 1, i - 1)>> \o split(SubSeq(str, i + 1, Len(str)), sep)

\* const [m, d, y] = parts: the i-th element, or undefined (None) past the end.
Element(parts, i) == IF i <= Len(parts) THEN Some(parts[i]) ELSE None

\* String(v) and `${v}` of a string or undefined.
String(v) ==
    IF v = None THEN <<"u", "n", "d", "e", "f", "i", "n", "e", "d">> ELSE v[1]

\* String.prototype.padStart(2, '0')
padStart2(str) ==
    CASE Len(str) = 0 -> <<"0", "0">>
      [] Len(str) = 1 -> <<"0">> \o str
      [] OTHER        -> str

\* Truthiness of an optional string: defined and not empty.
Truthy(v) == v # None /\ v[1] # <<>>

\* toISOLocal with month and day taken in the wrong order from the split.
toISOLocalSwapped(dateStr, timeStr) ==
    LET isoBase == IF includes(dateStr, "/")
                   THEN LET parts == split(dateStr, "/")
                            d == Element(parts, 1)
                            m == Element(parts, 2)
                            y == Element(parts, 3)
                        IN  String(y) \o <<"-">> \o padStart2(String(m))
                                      \o <<"-">> \o padStart2(String(d))
                   ELSE dateStr
        t == IF Truthy(timeStr) THEN timeStr[1] \o <<":", "0", "0">>
             ELSE <<"0", "0", ":", "0", "0", ":", "0", "0">>
    IN  isoBase \o <<"T">> \o t

\* toISOLocal(dateStr, timeStr) of src/server.js and src/unnamed/part_001.
toISOLocal(dateStr, timeStr) ==
    LET isoBase == IF includes(dateStr, "/")
                   THEN LET parts == split(dateStr, "/")
                            m == Element(parts, 1)
                            d == Element(parts, 2)
                            y == Element(parts, 3)
                        IN  String(y) \o <<"-">> \o padStart2(String(m))
                                      \o <<"-">> \o padStart2(String(d))
                   ELSE dateStr
        t == IF Truthy(timeStr) THEN timeStr[1] \o <<":", "0", "0">>
             ELSE <<"0", "0", ":", "0", "0", ":", "0", "0">>
    IN  isoBase \o <<"T">> \o t

\* toISOLocal(dateStr, timeStr) of src/unnamed/part_000: the split is kept only
\* when its third element is truthy.
toISOLocalV0(dateStr, timeStr) ==
    LET parts == IF includes(dateStr, "/") THEN split(dateStr, "/") ELSE <<>>
        m == Element(parts, 1)
        d == Element(parts, 2)
        y == Element(parts, 3)
        isoBase == IF Truthy(y)
                   THEN String(y) \o <<"-">> \o padStart2(String(m))
                                  \o <<"-">> \o padStart2(String(d))
                   ELSE dateStr
        t == IF Truthy(timeStr) THEN timeStr[1] \o <<":", "0", "0">>
             ELSE <<"0", "0", ":", "0", "0", ":", "0", "0">>
    IN  isoBase \o <<"T">> \o t

\* The keys buildActionBaseProperties sets, and whether the payload provides them.
PropKeys == {"Name", "Status", "Type", "Priority Level", "Alignment",
             "Do Date", "Due Date", "Project Attribute"}

DateProvided(dt) == dt # None /\ Truthy(dt[1].date)

\* buildActionBaseProperties(payload): only what is provided is set.  `copy`
\* names the deployed copy of toISOLocal.
buildActionBaseProperties(pl, copy) ==
    LET toISO(d, t) == IF copy = "part_000" THEN toISOLocalV0(d, t)
                       ELSE toISOLocal(d, t)
        provided(k) ==
            CASE k = "Name"              -> pl.name # None /\ pl.name[1] # ""
              [] k = "Status"            -> pl.status # None /\ pl.status[1] # ""
              [] k = "Type"              -> pl.type # None /\ pl.type[1] # ""
              [] k = "Priority Level"    -> pl.priorityLevel # None /\ pl.priorityLevel[1] # ""
              [] k = "Alignment"         -> pl.alignment # None /\ pl.alignment[1] # ""
              [] k = "Do Date"           -> DateProvided(pl.doDate)
              [] k = "Due Date"          -> DateProvided(pl.dueDate)
              [] k = "Project Attribute" -> pl.projectAttributePageId # None
                                            /\ pl.projectAttributePageId[1] # ""
        value(k) ==
            CASE k = "Name"              -> [title |-> <<[text |-> [content |-> pl.name[1]]]>>]
              [] k = "Status"            -> [status |-> [name |-> pl.status[1]]]
              [] k = "Type"              -> [select |-> [name |-> pl.type[1]]]
              [] k = "Priority Level"    -> [select |-> [name |-> pl.priorityLevel[1]]]
              [] k = "Alignment"         -> [select |-> [name |-> pl.alignment[1]]]
              [] k = "Do Date"           ->
                    [date |-> [start |-> toISO(pl.doDate[1].date[1], pl.doDate[1].time),
                               time_zone |-> "America/Chicago"]]
              [] k = "Due Date"          ->
                    [date |-> [start |-> toISO(pl.dueDate[1].date[1], pl.dueDate[1].time),
                               time_zone |-> "America/Chicago"]]
              [] k = "Project Attribute" ->
                    [relation |-> <<[id |-> pl.projectAttributePageId[1]]>>]
    IN  [k \in {x \in PropKeys : provided(x)} |-> value(k)]

---------------------------------------------------------------------------
(* Payloads: a do date and a due date written in the accepted forms and in  *)
(* forms that match neither.                                               *)

Builds == {"server.js", "part_000"}

TwoDigits(n) == <<Digit[(n \div 10) + 1], Digit[(n % 10) + 1]>>
Plain(n) == IF n < 10 THEN <<Digit[n + 1]>> ELSE TwoDigits(n)
FourDigits(n) == TwoDigits(n \div 100) \o TwoDigits(n % 100)

CivilDays == {[m |-> 6, d |-> 15, y |-> 2024], [m |-> 6, d |-> 5, y |-> 2024],
              [m |-> 12, d |-> 5, y |-> 2024], [m |-> 1, d |-> 31, y |-> 2025]}

USText(c)    == TwoDigits(c.m) \o <<"/">> \o TwoDigits(c.d) \o <<"/">> \o FourDigits(c.y)
USShort(c)   == Plain(c.m) \o <<"/">> \o Plain(c.d) \o <<"/">> \o FourDigits(c.y)
ISOText(c)   == FourDigits(c.y) \o <<"-">> \o TwoDigits(c.m) \o <<"-">> \o TwoDigits(c.d)

Malformed ==
    { <<"t", "o", "d", "a", "y">>,
      <<"1", "5", ".", "0", "6", ".", "2", "0", "2", "4">>,
      <<"0", "6", "-", "1", "5", "-", "2", "0", "2", "4">>,
      <<"2", "0", "2", "4", "/", "0", "6", "/", "1", "5">>,
      <<"0", "6", "/", "2", "0", "2", "4">>,
      <<"0", "6", "/", "1", "5", "/">> }

DateTexts == {USText(c) : c \in CivilDays} \cup {USShort(c) : c \in CivilDays}
             \cup {ISOText(c) : c \in CivilDays} \cup Malformed

TimeTexts == {None, Some(<<"1", "4", ":", "3", "0">>), Some(<<"0", "9", ":", "0", "5">>)}

DateInputs == {None} \cup {Some([date |-> Some(dt), time |-> tm]) :
                              dt \in DateTexts, tm \in TimeTexts}

Payloads == {[name |-> Some("Call mom"), status |-> None, type |-> None,
              priorityLevel |-> None, alignment |-> None,
              doDate |-> a, dueDate |-> b, projectAttributePageId |-> None] :
                 a \in DateInputs, b \in DateInputs}

InitProps ==
    /\ build \in Builds
    /\ payload \in {Some(pl) : pl \in Payloads}
    /\ props = None
    /\ EnvIdle /\ WindowIdle /\ HelperIdle /\ TodayIdle /\ PeriodIdle /\ RequestsIdle /\ NotesIdle /\ ActionIdle

\* const properties = buildActionBaseProperties(req.body): the call returns, it
\* has no throw statement and its string operations do not fail on strings.
CallBuildActionBaseProperties ==
    /\ props = None
    /\ props' = Some([status |-> "returned",
                      value |-> buildActionBaseProperties(payload[1], build)])
    /\ UNCHANGED <<build, payload, restProps>>

NextProps == CallBuildActionBaseProperties

SpecProps == InitProps /\ [][NextProps]_vars

---------------------------------------------------------------------------
(* Claims about toISOLocal (checked under SpecProps).                      *)

AllDigits(str) == \A i \in 1..Len(str) : IsDigit(str[i])

\* MM/DD/YYYY (a one-digit month or day is accepted as well).
IsUSDate(str) ==
    LET parts == split(str, "/") IN
    /\ Len(parts) = 3
    /\ Len(parts[1]) \in {1, 2} /\ Len(parts[2]) \in {1, 2} /\ Len(parts[3]) = 4
    /\ \A i \in 1..3 : AllDigits(parts[i])

\* YYYY-MM-DD
IsISODate(str) ==
    /\ Len(str) = 10
    /\ str[5] = "-" /\ str[8] = "-"
    /\ \A i \in (1..10) \ {5, 8} : IsDigit(str[i])

\* HH:MM
IsHHMM(tm) ==
    /\ tm # None
    /\ Len(tm[1]) = 5
    /\ tm[1][3] = ":"
    /\ \A i \in {1, 2, 4, 5} : IsDigit(tm[1][i])

\* The two texts write the same civil date.
SameCivilDate(us, iso) ==
    LET parts == split(us, "/") IN
    /\ IsUSDate(us) /\ IsISODate(iso)
    /\ padStart2(parts[1]) = SubSeq(iso, 6, 7)
    /\ padStart2(parts[2]) = SubSeq(iso, 9, 10)
    /\ parts[3] = SubSeq(iso, 1, 4)

\* The payload gives the do date as MM/DD/YYYY and the due date as YYYY-MM-DD,
\* for the same civil date and the same HH:MM time.
SameDateTwoForms ==
    /\ payload # None
    /\ payload[1].doDate # None /\ payload[1].dueDate # None
    /\ SameCivilDate(payload[1].doDate[1].date[1], payload[1].dueDate[1].date[1])
    /\ IsHHMM(payload[1].doDate[1].time)
    /\ payload[1].doDate[1].time = payload[1].dueDate[1].time

\* C6: toISOLocal gives the same result for a date written MM/DD/YYYY and the
\* same date written YYYY-MM-DD with the same HH:MM time; ("06/15/2024", "14:30")
\* and ("2024-06-15", "14:30") both give 2024-06-15T14:30:00.
C6_SameResultBothForms ==
    (props # None /\ SameDateTwoForms) =>
        LET p == props[1].value IN
        /\ props[1].status = "returned"
        /\ p["Do Date"].date.start = p["Due Date"].date.start
        /\ (/\ payload[1].doDate[1].date[1]
                  = <<"0", "6", "/", "1", "5", "/", "2", "0", "2", "4">>
            /\ payload[1].doDate[1].time[1] = <<"1", "4", ":", "3", "0">>)
           => p["Do Date"].date.start
                  = <<"2", "0", "2", "4", "-", "0", "6", "-", "1", "5", "T",
                      "1", "4", ":", "3", "0", ":", "0", "0">>

\* Both calls made for a date whose month and day differ, written with one-digit
\* day in the MM/DD/YYYY form.
C6_Witness ==
    /\ props # None
    /\ SameDateTwoForms
    /\ payload[1].doDate[1].date[1] = <<"1", "2", "/", "5", "/", "2", "0", "2", "4">>

\* C8: toISOLocal fails with a FormatError when the date text matches neither
\* MM/DD/YYYY nor YYYY-MM-DD; it never returns a string for such input.
C8_MalformedRejected ==
    props # None =>
        \A dt \in {payload[1].doDate, payload[1].dueDate} :
            (/\ DateProvided(dt)
             /\ ~IsUSDate(dt[1].date[1])
             /\ ~IsISODate(dt[1].date[1]))
            => props[1].status = "FormatError"

---------------------------------------------------------------------------
(* Claims about POST /analysis/today (checked under Spec).                 *)

Answered200 == tresp # None /\ tresp[1].status = 200

\* The number of coach lines of a list that carry a page's id.
LinesOf(lines, id) == Cardinality({j \in 1..Len(lines) : lines[j].id = id})

\* C1: the daily focus places every fetched item in exactly one of overdue or
\* scheduled, with no loss and no duplication: |overdue| + |scheduled| = |items|.
C1_PartitionComplete ==
    Answered200 =>
        LET b == tresp[1].body IN
        /\ Len(b.overdue) + Len(b.scheduled) = Len(titems)
        /\ \A i \in 1..Len(titems) :
              LinesOf(b.overdue, titems[i].id) + LinesOf(b.scheduled, titems[i].id) = 1

\* A report with an overdue item, a timed scheduled item and an untimed one.
C1_Witness ==
    /\ Answered200
    /\ Len(tresp[1].body.overdue) = 1
    /\ Len(tresp[1].body.scheduled) = 2
    /\ \E i \in 1..Len(titems) : getPrimaryWhen(titems[i]).date = None

\* The sort keys as the specification states them.
PriorityRank(page) ==
    LET pr == page.properties["Priority Level"].select IN
    CASE pr = None -> 4
      [] pr # None /\ pr[1].name = "HIGH" -> 1
      [] pr # None /\ pr[1].name = "MID"  -> 2
      [] pr # None /\ pr[1].name = "LOW"  -> 3
StatusRank(page) ==
    LET st == page.properties["Status"].status IN
    CASE st = None -> 4
      [] st # None /\ st[1].name = "Not started" -> 1
      [] st # None /\ st[1].name = "In progress" -> 2
      [] st # None /\ st[1].name = "Done"        -> 3
\* The primary instant: the do start, else the due start, else none.
PrimaryInstant(page) ==
    LET do  == page.properties["Do Date"].date
        due == page.properties["Due Date"].date
    IN  IF do # None THEN Some(do[1].start)
        ELSE IF due # None THEN Some(due[1].start) ELSE None
\* t1 <= t2 with "none" standing for +infinity.
InstantLeq(t1, t2) == t2 = None \/ (t1 # None /\ t1[1] <= t2[1])

KeyLeq(a, b) ==
    \/ PriorityRank(a) < PriorityRank(b)
    \/ /\ PriorityRank(a) = PriorityRank(b)
       /\ \/ (InstantLeq(PrimaryInstant(a), PrimaryInstant(b))
                /\ PrimaryInstant(a) # PrimaryInstant(b))
          \/ /\ PrimaryInstant(a) = PrimaryInstant(b)
             /\ StatusRank(a) <= StatusRank(b)
KeyEq(a, b) ==
    /\ PriorityRank(a) = PriorityRank(b)
    /\ PrimaryInstant(a) = PrimaryInstant(b)
    /\ StatusRank(a) = StatusRank(b)

\* C2: the sorted items are the fetched items (ids 1..n in response order), every
\* adjacent pair is non-decreasing in (priorityRank, primaryInstant, statusRank)
\* with HIGH=1, MID=2, LOW=3, unset=4, no instant = +infinity, Not started=1,
\* In progress=2, Done=3, unset=4, and items with equal keys keep their
\* response order (the sort is stable).
C2_SortedStable ==
    Answered200 =>
        /\ {titems[i].id : i \in 1..Len(titems)} = 1..Len(titems)
        /\ \A i \in 1..(Len(titems) - 1) :
              /\ KeyLeq(titems[i], titems[i + 1])
              /\ KeyEq(titems[i], titems[i + 1]) => titems[i].id < titems[i + 1].id

\* Three items that the sort had to reorder: an untimed one answered first, and
\* two with equal keys.
C2_Witness ==
    /\ Answered200
    /\ Len(titems) = 3
    /\ titems[3].id = 1
    /\ PrimaryInstant(titems[3]) = None
    /\ PrimaryInstant(titems[2]) # None
    /\ KeyEq(titems[1], titems[2])

\* Exactly three items, with primary instants 09:00, 09:30 and 11:00 (Chicago).
ThreeTimedItems ==
    /\ Answered200
    /\ Len(titems) = 3
    /\ {PrimaryInstant(titems[i]) : i \in 1..3} = {Some(T0900), Some(T0930), Some(T1100)}

OnlyGapIsLateMorning ==
    /\ Len(tresp[1].body.gaps) = 1
    /\ tresp[1].body.gaps[1].window = <<"9:30 AM", "11:00 AM">>

\* C3 as stated: given three timed items at 09:00, 09:30 and 11:00, the daily focus
\* reports exactly one gap, 09:30-11:00, and none for the 09:00-09:30 pair.
C3_OneGapAlways == ThreeTimedItems => OnlyGapIsLateMorning

\* C3, amended: ... when the reference instant (`now`) is not after 09:30.
C3_OneGapWhenUpcoming ==
    (ThreeTimedItems /\ tnow[1] <= T0930) => OnlyGapIsLateMorning

\* All three items are still ahead, so both pairs are examined.
C3_Witness ==
    /\ ThreeTimedItems
    /\ tnow[1] < T0900
    /\ Len(tresp[1].body.scheduled) = 3
    /\ OnlyGapIsLateMorning

---------------------------------------------------------------------------
(* Claims about /analysis/7day and /analysis/period (under SpecPeriod).    *)

PeriodAnswered200 == presp # None /\ presp[1].status = 200

IsNotStarted(p) == p.properties["Status"].status = Some([name |-> "Not started"])

\* Not started, and the primary instant strictly before now + 48 hours.
AtRisk(p) ==
    /\ IsNotStarted(p)
    /\ PrimaryInstant(p) # None
    /\ PrimaryInstant(p)[1] < pnow[1] + 48 * 3600 * 1000

\* C5: riskWatch holds exactly the items (in input order) whose status is
\* "Not started" and whose primary instant (do start, else due start) is strictly
\* before now + 48 hours; a "Not started" item with neither instant is never in it.
C5_RiskWatchExact ==
    PeriodAnswered200 =>
        LET rw == presp[1].body.sections.riskWatch IN
        /\ rw = MapLine(SelectSeq(pitems, AtRisk))
        /\ \A i \in 1..Len(pitems) :
              (IsNotStarted(pitems[i]) /\ PrimaryInstant(pitems[i]) = None)
              => \A j \in 1..Len(rw) : rw[j] # line(pitems[i])

\* A report over an item inside the horizon, one exactly on it and an untimed
\* one, all three "Not started".
C5_Witness ==
    /\ PeriodAnswered200
    /\ Len(presp[1].body.sections.riskWatch) = 1
    /\ Len(pitems) = 3
    /\ \A i \in 1..3 : IsNotStarted(pitems[i])
    /\ \E i \in 1..3 : PrimaryInstant(pitems[i]) = None
    /\ \E i \in 1..3 : PrimaryInstant(pitems[i]) = Some(pnow[1] + 48 * 3600 * 1000)

\* The alignment label an item is counted under.
AlignmentLabel(p) ==
    LET a == p.properties["Alignment"].select IN
    IF a = None THEN "Unassigned" ELSE a[1].name

\* The labels of the items in the order in which each is first seen.
RECURSIVE FirstSeen(_, _)
FirstSeen(items, seen) ==
    IF items = <<>> THEN seen
    ELSE LET a == AlignmentLabel(Head(items)) IN
         FirstSeen(Tail(items),
                   IF \E i \in 1..Len(seen) : seen[i] = a THEN seen ELSE Append(seen, a))

CountOfLabel(items, a) == Cardinality({i \in 1..Len(items) : AlignmentLabel(items[i]) = a})

\* C7: alignmentCheck is the count of items per alignment label, unset alignment
\* counted under "Unassigned", listed in the order in which each label is first
\* seen; for alignments ["A", null, "A", "B"] it is [A:2, Unassigned:1, B:1].
C7_AlignmentFirstSeen ==
    PeriodAnswered200 =>
        LET labels == FirstSeen(pitems, <<>>)
            ac     == presp[1].body.sections.alignmentCheck
        IN  /\ ac = [i \in 1..Len(labels) |->
                        [alignment |-> labels[i], count |-> CountOfLabel(pitems, labels[i])]]
            /\ [i \in 1..Len(pitems) |-> AlignmentLabel(pitems[i])]
                   = <<"A", "Unassigned", "A", "B">>
               => ac = <<[alignment |-> "A", count |-> 2],
                         [alignment |-> "Unassigned", count |-> 1],
                         [alignment |-> "B", count |-> 1]>>

---------------------------------------------------------------------------
(* Claims about the page helpers (checked under SpecHelpers).              *)

ReadPropCalled == hcall # None /\ hcall[1].fn = "readProp"

\* The page of the call holds a property under the key of the call.
HasProperty ==
    /\ "properties" \in DOMAIN hcall[1].page
    /\ hcall[1].arg \in DOMAIN hcall[1].page.properties

PropertyRead == hcall[1].page.properties[hcall[1].arg]

\* C11: readProp never throws; an unknown key, a missing property or a property
\* of an unrecognised kind yields null; a relation yields the list of its ids,
\* the empty list when there are none; a select or status property with no
\* chosen value yields null.
C11_ReadPropTotal ==
    ReadPropCalled =>
        LET c == hcall[1] IN
        /\ ~c.threw
        /\ ~HasProperty => c.ret = None
        /\ HasProperty =>
              LET p == PropertyRead IN
              /\ p.type \notin {"date", "status", "select", "relation", "title"}
                    => c.ret = None
              /\ p.type = "relation"
                    => /\ c.ret = Some([i \in 1..Len(p.relation) |-> p.relation[i].id])
                       /\ p.relation = <<>> => c.ret = Some(<<>>)
              /\ (p.type = "select" /\ p.select = None) => c.ret = None
              /\ (p.type = "status" /\ p.status = None) => c.ret = None

\* A select property without a chosen value has been read: null, no error.
C11_Witness ==
    /\ ReadPropCalled /\ HasProperty
    /\ PropertyRead.type = "select" /\ PropertyRead.select = None
    /\ ~hcall[1].threw /\ hcall[1].ret = None

CoachLineCalled == hcall # None /\ hcall[1].fn = "asCoachLine"

\* The item's instant for `which`: its do start or its due start, if set.
InstantFor(page, which) ==
    LET d == page.properties[IF which = "do" THEN "Do Date" ELSE "Due Date"].date IN
    IF d = None THEN None ELSE Some(d[1].start)

\* C12: for every item, every which in {do, due} and every now, suggestReminder
\* is true if and only if the item's instant for which exists and is strictly
\* after now.
C12_ReminderIffUpcoming ==
    CoachLineCalled =>
        LET c == hcall[1]
            t == InstantFor(c.page, c.arg)
        IN  c.ret.suggestReminder <=> (t # None /\ t[1] > c.now)

\* Asked about "due" for an item due exactly now whose do start is still ahead:
\* no reminder.
C12_Witness ==
    /\ CoachLineCalled
    /\ hcall[1].arg = "due"
    /\ InstantFor(hcall[1].page, "due") = Some(hcall[1].now)
    /\ InstantFor(hcall[1].page, "do") # None
    /\ InstantFor(hcall[1].page, "do")[1] > hcall[1].now
    /\ ~hcall[1].ret.suggestReminder

PriorityOf(page) == page.properties["Priority Level"].select
CategoryOf(page) == page.properties["Type"].select

\* C13: the rationale is chosen first-match-wins: priority HIGH, then category
\* Event, then category Call, else the generic cadence message; an item that is
\* HIGH and also an Event or a Call gets the high-impact message.
C13_RationaleFirstMatch ==
    CoachLineCalled =>
        LET pg   == hcall[1].page
            why  == hcall[1].ret.why
            high == PriorityOf(pg) = Some([name |-> "HIGH"])
            ev   == CategoryOf(pg) = Some([name |-> "Event"])
            call == CategoryOf(pg) = Some([name |-> "Call"])
        IN  /\ why = IF high THEN "High-impact lever - moves a top outcome forward."
                     ELSE IF ev THEN "Time-bound; missing it creates downstream delays."
                     ELSE IF call THEN "Maintains momentum and unblocks next steps."
                     ELSE "Keeps your cadence strong and reduces task spillover."
            /\ (high /\ (ev \/ call))
                  => why = "High-impact lever - moves a top outcome forward."

\* A HIGH item that is also a Call has been given the high-impact message.
C13_Witness ==
    /\ CoachLineCalled
    /\ PriorityOf(hcall[1].page) = Some([name |-> "HIGH"])
    /\ CategoryOf(hcall[1].page) = Some([name |-> "Call"])
    /\ hcall[1].ret.why = "High-impact lever - moves a top outcome forward."

---------------------------------------------------------------------------
(* Further claims about /analysis/7day and /analysis/period (SpecPeriod).  *)

IsHighItem(p) == PriorityOf(p) = Some([name |-> "HIGH"])
IsWinItem(p) ==
    PriorityOf(p) \in {None, Some([name |-> "MID"]), Some([name |-> "LOW"])}

\* How often a line occurs in a list of lines.
Occurrences(lines, l) == Cardinality({j \in 1..Len(lines) : lines[j] = l})

\* C14: highPriority holds the items with priority HIGH and strategicWins the
\* items with priority MID, LOW or unset (both in input order); every item
\* whose priority is HIGH, MID, LOW or unset is in exactly one of the two
\* lists, and |highPriority| + |strategicWins| = |items|.
C14_PriorityTiers ==
    PeriodAnswered200 =>
        LET hp == presp[1].body.sections.highPriority
            sw == presp[1].body.sections.strategicWins
        IN  /\ hp = MapLine(SelectSeq(pitems, IsHighItem))
            /\ sw = MapLine(SelectSeq(pitems, IsWinItem))
            /\ \A i \in 1..Len(pitems) :
                  (IsHighItem(pitems[i]) \/ IsWinItem(pitems[i]))
                  => Occurrences(hp, line(pitems[i])) + Occurrences(sw, line(pitems[i]))
                        = Occurrences(MapLine(pitems), line(pitems[i]))
            /\ (\A i \in 1..Len(pitems) : IsHighItem(pitems[i]) \/ IsWinItem(pitems[i]))
                  => Len(hp) + Len(sw) = Len(pitems)

\* A weekly report over one item of each priority: HIGH, MID, LOW and unset.
C14_Witness ==
    /\ PeriodAnswered200
    /\ preq[1].kind = "7day"
    /\ {PriorityOf(pitems[i]) : i \in 1..Len(pitems)}
          = {None, Some([name |-> "HIGH"]), Some([name |-> "MID"]), Some([name |-> "LOW"])}
    /\ Len(presp[1].body.sections.highPriority) = 1
    /\ Len(presp[1].body.sections.strategicWins) = 3

---------------------------------------------------------------------------
(* Further claims about POST /analysis/today (checked under Spec).         *)

\* C15: when the fetched item collection is empty the daily focus answers with
\* a successful report whose overdue, scheduled and gaps lists are empty and
\* whose tally counts are all zero; it is not an error.
C15_EmptyCollectionIsEmptyReport ==
    (tpc = "done" /\ tnow # None /\ titems = <<>>) =>
        /\ Answered200
        /\ tresp[1].body.ok
        /\ tresp[1].body.overdue = <<>>
        /\ tresp[1].body.scheduled = <<>>
        /\ tresp[1].body.gaps = <<>>
        /\ tresp[1].body.quickTally
              = [total |-> 0, high |-> 0, dueHard |-> 0, doCount |-> 0,
                 statusMix |-> [notStarted |-> 0, inProgress |-> 0, done |-> 0]]

\* The query has returned no page and the handler has answered.
C15_Witness ==
    /\ tpc = "done" /\ tnow # None /\ titems = <<>>
    /\ tresp # None /\ tresp[1].status = 200

\* The entries of the timed-only list that carry a page's id.
TimedOf(timed, id) == Cardinality({j \in 1..Len(timed) : timed[j].line.id = id})

\* C18: by its primary instant (do start, else due start) an item with no
\* instant goes to scheduled, formatted against "do"; an item whose instant is
\* strictly before now goes to overdue; an item whose instant is equal to or
\* after now goes to scheduled and to the timed-only list; the status plays no
\* part.
C18_PartitionRule ==
    Answered200 =>
        \A i \in 1..Len(titems) :
            LET pg       == titems[i]
                t        == PrimaryInstant(pg)
                overdue  == LinesOf(tresp[1].body.overdue, pg.id)
                sched    == LinesOf(tresp[1].body.scheduled, pg.id)
                timed    == TimedOf(ttimed, pg.id)
            IN  /\ t = None =>
                      /\ overdue = 0 /\ sched = 1 /\ timed = 0
                      /\ \A j \in 1..Len(tresp[1].body.scheduled) :
                            tresp[1].body.scheduled[j].id = pg.id
                            => /\ tresp[1].body.scheduled[j].line[2] = "Do"
                               /\ tresp[1].body.scheduled[j].line[3] = "no time"
                /\ (t # None /\ t[1] < tnow[1]) =>
                      overdue = 1 /\ sched = 0 /\ timed = 0
                /\ (t # None /\ t[1] >= tnow[1]) =>
                      /\ overdue = 0 /\ sched = 1 /\ timed = 1
                      /\ \A j \in 1..Len(ttimed) :
                            ttimed[j].line.id = pg.id => ttimed[j].date = t[1]

\* An untimed item, one before now and one exactly at now, of three statuses.
C18_Witness ==
    /\ Answered200
    /\ Len(titems) = 3
    /\ {PrimaryInstant(titems[i]) : i \in 1..3} = {None, Some(tnow[1] - 30 * 60000), Some(tnow[1])}
    /\ Cardinality({StatusRank(titems[i]) : i \in 1..3}) = 3
    /\ Len(tresp[1].body.overdue) = 1
    /\ Len(ttimed) = 1

\* The consecutive pairs of the timed-only list at least 60 minutes apart.
WidePairs(timed) ==
    {i \in 1..(Len(timed) - 1) : timed[i + 1].date - timed[i].date >= 60 * 60000}

\* The k-th of them, counted from the front of the list.
WidePair(timed, k) ==
    CHOOSE i \in WidePairs(timed) : Cardinality({j \in WidePairs(timed) : j <= i}) = k

\* C19: the timed-only list is ascending by instant, and the gaps are one
\* record for each consecutive pair at least 60 minutes apart, in order, and
\* none for any other pair; a pair exactly 60 minutes apart produces a gap.
C19_GapPerWidePair ==
    Answered200 =>
        LET gaps == tresp[1].body.gaps IN
        /\ \A i \in 1..(Len(ttimed) - 1) : ttimed[i].date <= ttimed[i + 1].date
        /\ Len(gaps) = Cardinality(WidePairs(ttimed))
        /\ \A k \in 1..Len(gaps) :
              gaps[k].window = <<TimeLabel(ttimed[WidePair(ttimed, k)].date),
                                 TimeLabel(ttimed[WidePair(ttimed, k) + 1].date)>>

\* Timed items at 09:30, 10:00 and 11:00: the pair exactly 60 minutes apart
\* gives the only gap.
C19_Witness ==
    /\ Answered200
    /\ [i \in 1..Len(ttimed) |-> ttimed[i].date] = <<T0930, T1000, T1100>>
    /\ Len(tresp[1].body.gaps) = 1
    /\ tresp[1].body.gaps[1].window = <<"10:00 AM", "11:00 AM">>

\* The names, as readProp gives them, of the first two items of a list.
FirstTwoNames(items) ==
    [i \in 1..(IF Len(items) < 2 THEN Len(items) ELSE 2) |->
        Some(items[i].properties["Name"].title[1].plain_text)]

IsNotHighItem(p) == ~IsHighItem(p)

\* C20: the suggestions of every gap are the names of the first two items, in
\* the sorted order of all items, whose priority is not HIGH (fewer when fewer
\* exist): the same for every gap of a report, whatever the gap's bounds.
C20_SuggestionsFromSortedItems ==
    Answered200 =>
        \A k \in 1..Len(tresp[1].body.gaps) :
            tresp[1].body.gaps[k].suggestions
                = FirstTwoNames(SelectSeq(titems, IsNotHighItem))

\* Two gaps in one report over three items that are not HIGH.
C20_Witness ==
    /\ Answered200
    /\ Len(tresp[1].body.gaps) = 2
    /\ Len(SelectSeq(titems, IsNotHighItem)) = 3
    /\ Len(tresp[1].body.gaps[1].suggestions) = 2
    /\ tresp[1].body.gaps[1].suggestions = tresp[1].body.gaps[2].suggestions

---------------------------------------------------------------------------
(* Claims about requests in flight together (checked under SpecRequests).  *)

Finished200(q) == q.resp # None /\ q.resp[1].status = 200

\* The report of a request as its handler defines it, from the pages its own
\* query returned, its own `now` and (for the header of the daily focus) its
\* own window.
ReportOf(q) ==
    CASE q.req[1].kind = "today" ->
            todayBody(sortItems(q.results), q.now[1], q.win[1])
      [] q.req[1].kind = "7day" ->
            [ok |-> TRUE, sections |-> sections7day(q.results, q.now[1])]
      [] q.req[1].kind = "period" ->
            [ok |-> TRUE, sections |-> sectionsPeriod(q.results, q.now[1])]

\* The report without the header line of the daily focus.
Aggregates(body) ==
    IF "sections" \in DOMAIN body THEN body.sections
    ELSE [overdue |-> body.overdue, scheduled |-> body.scheduled,
          gaps |-> body.gaps, quickTally |-> body.quickTally]

EachReportIsItsOwn ==
    \A r \in RequestIds :
        Finished200(reqs[r]) => reqs[r].resp[1].body = ReportOf(reqs[r])

SameInputsSameReport ==
    \A r, q \in RequestIds :
        (/\ Finished200(reqs[r]) /\ Finished200(reqs[q])
         /\ reqs[r].req[1].kind = reqs[q].req[1].kind
         /\ reqs[r].results = reqs[q].results
         /\ reqs[r].now = reqs[q].now)
        => Aggregates(reqs[r].resp[1].body) = Aggregates(reqs[q].resp[1].body)

OneRequestPerStep ==
    \A r, q \in RequestIds :
        (r # q /\ reqs'[r] # reqs[r]) => reqs'[q] = reqs[q]

C17_NoRetry ==
    \A r \in DOMAIN reqs :
        LET c == reqs[r].calls IN
        /\ \A i, j \in 1..Len(c) : c[i].path = c[j].path => i = j
        /\ \A i \in 1..Len(c) :
              c[i].outcome = "failed"
              => /\ i = Len(c)
                 /\ reqs[r].pc = "done"
                 /\ reqs[r].resp # None /\ reqs[r].resp[1].status = 500

\* The search succeeded, the query failed, and the request ended with 500.
C17_Witness ==
    \E r \in DOMAIN reqs :
        /\ Len(reqs[r].calls) = 2
        /\ reqs[r].calls[1].outcome = "ok"
        /\ reqs[r].calls[2].outcome = "failed"
        /\ reqs[r].resp # None /\ reqs[r].resp[1].status = 500

---------------------------------------------------------------------------
(* The segments of the coach line                                          *)

\* The value of a select or status property of the page, if one is chosen.
ChosenOf(page, key) ==
    LET p == page.properties[key] IN
    IF p.type = "status" THEN (IF p.status = None THEN None ELSE Some(p.status[1].name))
    ELSE (IF p.select = None THEN None ELSE Some(p.select[1].name))

\* The segment printed for an optional field: none when the field is absent.
OptionalSegment(v) == IF v = None THEN <<>> ELSE <<v[1]>>

\* The name of the page as stored: its title fragments joined.
StoredName(page) == JoinPlain(page.properties["Name"].title)

---------------------------------------------------------------------------
(* The two period reports and their copies                                 *)

\* Items of the answered request that are not started, one of them without
\* dates and one with a start before the 48-hour horizon.
MixedRiskItems ==
    /\ \E i \in 1..Len(pitems) :
          /\ getStatus(pitems[i]) = "Not started"
          /\ InstantFor(pitems[i], "do") = None /\ InstantFor(pitems[i], "due") = None
    /\ \E i \in 1..Len(pitems) :
          /\ getStatus(pitems[i]) = "Not started"
          /\ InstantFor(pitems[i], "do") # None
          /\ InstantFor(pitems[i], "do")[1] < pnow[1] + H48

\* C22: for the same items and the same now, /analysis/7day and
\* /analysis/period compute the same highPriority, strategicWins, riskWatch
\* and alignmentCheck, the copies of the two handlers in the other source
\* file compute them as well, and they are the sections of the answer.
C22_SameSections ==
    PeriodAnswered200 =>
        LET s == sections7day(pitems, pnow[1]) IN
        /\ sectionsPeriod(pitems, pnow[1]) = s
        /\ sections7dayV0(pitems, pnow[1]) = s
        /\ sectionsPeriodV0(pitems, pnow[1]) = s
        /\ sectionsPeriodV1(pitems, pnow[1]) = s
        /\ presp[1].body.sections = s

\* /analysis/period has answered for items of which one is at risk and one,
\* not started and without dates, is not.
C22_Witness ==
    /\ PeriodAnswered200 /\ preq[1].kind = "period"
    /\ MixedRiskItems
    /\ Len(presp[1].body.sections.riskWatch) = 1
    /\ Len(pitems) >= 3

---------------------------------------------------------------------------
(* The notes: rows of a spreadsheet, written through /notes/create,        *)
(* /notes/update and /notes/delete.  Several requests may be in flight; a  *)
(* step is the code of one request from one await to the next.  A row      *)
(* carries, besides its four cells, the identity of the note it was        *)
(* appended as (id, created): bookkeeping that the sheet does not hold.    *)

NOTE_HEADERS == <<"TITLE", "Date & Time", "Tag", "Notes">>

\* Values of a request body field: undefined, a number or a string.
Undefined == [t |-> "undefined"]
Num(n) == [t |-> "number", v |-> n]
Str(x) == [t |-> "string", v |-> x]

MaxRowIndex == 4   \* largest row number a request names

\* Number(v): None stands for NaN.
ToNumber(v) ==
    CASE v.t = "undefined" -> None
      [] v.t = "number"    -> Some(v.v)
      [] v.t = "string"    ->
            IF v.v = "" THEN Some(0)
            ELSE IF \E n \in 0..MaxRowIndex : ToString(n) = v.v
                 THEN Some(CHOOSE n \in 0..MaxRowIndex : ToString(n) = v.v)
                 ELSE None

\* !v
Falsy(v) ==
    \/ v.t = "undefined"
    \/ v.t = "number" /\ v.v = 0
    \/ v.t = "string" /\ v.v = ""

\* if (!idx || idx < 2) throw new Error('rowIndex must be >= 2')
BadRowIndex(idx) == idx = None \/ idx[1] = 0 \/ idx[1] < 2

\* `${n}`.padStart(2, '0')
padTwo(n) == ToString(n \div 10) \o ToString(n % 10)

\* chicagoNow(): the civil time of TZ read as a time of the process-local zone.
chicagoNow(now, host) ==
    LET loc == toLocaleString(now) IN LocalDate(loc.day, loc.sod, host)

\* formatChicago(ts, true): `${y}-${m}-${day} ${hh}:${mm}` of ts seen in TZ.
formatChicago(ts, host) ==
    LET loc == toLocaleString(ts)
        d   == LocalDate(loc.day, loc.sod, host)
        day == LocalDay(d, host)
        sod == ((d + host) % MS_PER_DAY) \div MS_PER_SEC
        c   == CivilDate(day)
    IN  ToString(c.y) \o "-" \o padTwo(c.m) \o "-" \o padTwo(c.d) \o " "
            \o padTwo(sod \div 3600) \o ":" \o padTwo((sod % 3600) \div 60)

\* The texts that requests carry, as the words that split(/\s+/) finds in them.
WordsOf(text) ==
    CASE text = ""          -> <<>>
      [] text = "study css" -> <<"study", "css">>
      [] text = "call ann"  -> <<"call", "ann">>
      [] text = "Call: ann" -> <<"Call:", "ann">>
      [] text = "General Note" -> <<"General", "Note">>
      [] OTHER              -> <<text>>

RECURSIVE JoinWords(_)
JoinWords(ws) ==
    IF ws = <<>> THEN ""
    ELSE IF Len(ws) = 1 THEN ws[1] ELSE ws[1] \o " " \o JoinWords(Tail(ws))

\* firstLine.match(/(meeting|call|client|task|idea)[:\- ]+(.*)/i), on a line
\* whose first word is the keyword.
Capitalized(w) ==
    CASE w = "meeting" -> "Meeting" [] w = "call" -> "Call" [] w = "client" -> "Client"
      [] w = "task" -> "Task" [] w = "idea" -> "Idea" [] OTHER -> w

generateTitle(notes) ==
    LET ws == WordsOf(notes) IN
    IF ws = <<>> THEN "General Note"
    ELSE IF ws[1] \in {"meeting", "call", "client", "task", "idea"} /\ Len(ws) > 1
         THEN Capitalized(ws[1]) \o ": " \o JoinWords(Tail(ws))
         ELSE JoinWords(SubSeq(ws, 1, IF Len(ws) < 6 THEN Len(ws) ELSE 6))

EDU_WORDS == {"codecademy", "freecodecamp", "javascript", "node", "react", "express",
              "firebase", "gsap", "html", "css", "study", "course", "tutorial", "lesson",
              "practice", "photoshop", "illustrator", "indesign", "premiere", "adobe",
              "bootcamp"}
WORK_WORDS == {"client", "invoice", "proposal", "deliverable", "website", "branding",
               "logo", "video", "edit", "render", "marketing", "ad", "campaign",
               "portfolio", "mockup"}
LIFE_WORDS == {"mom", "dad", "son", "daughter", "kids", "jordan", "jace", "family",
               "school", "homework", "pickup", "dropoff", "luz", "joe", "van", "dave",
               "rob", "exercise", "workout", "gym", "meditate", "meditation", "pray",
               "prayer", "court", "appointment", "doctor", "volunteer", "service",
               "church", "temple"}

\* bagContains(text, list), for texts none of whose words holds a listed word
\* inside a longer one.
bagContains(ws, list) == \E i \in 1..Len(ws) : ws[i] \in list

classifyTag(title, notes) ==
    LET ws == WordsOf(title) \o WordsOf(notes) IN
    IF bagContains(ws, EDU_WORDS) THEN "Dev & Design Education"
    ELSE IF bagContains(ws, WORK_WORDS) THEN "Krazy Monkee"
    ELSE IF bagContains(ws, LIFE_WORDS) THEN "Hanuman Life"
    ELSE "Krazy Monkee"

\* s.toUpperCase() of a field name.
toUpperCase(x) ==
    CASE x = "title" -> "TITLE" [] x = "tag" -> "TAG" [] x = "notes" -> "NOTES" [] OTHER -> x

\* --- the spreadsheet service ---

HeaderRow == [id |-> 0, created |-> "", cells |-> NOTE_HEADERS]
BlankRow == [id |-> 0, created |-> "", cells |-> <<"", "", "", "">>]
NoteRow(id, title, stamp, tag, notes) ==
    [id |-> id, created |-> stamp, cells |-> <<title, stamp, tag, notes>>]

SheetIndex(bk, title) == CHOOSE i \in 1..Len(bk) : bk[i].title = title
RowsOf(bk, title) == bk[SheetIndex(bk, title)].rows

\* getPrimarySheetTitle()
getPrimarySheetTitle(bk) ==
    IF \E i \in 1..Len(bk) : bk[i].title = "Maal Secretary Notes"
    THEN "Maal Secretary Notes"
    ELSE IF Len(bk) > 0 THEN bk[1].title ELSE "Sheet1"

\* deleteNote: meta.data.sheets?.[0]
deleteSheet(bk) == bk[1].title

\* ensureHeaders(): need.every((h, i) => row[i] === h) on the values of A1:D1
headersSame(bk, title) ==
    RowsOf(bk, title) # <<>> /\ RowsOf(bk, title)[1].cells = NOTE_HEADERS

\* spreadsheets.values.update on `${title}!A${idx}:D${idx}`: the cells of the
\* row are replaced; a row below the data comes into being, after blank rows.
RECURSIVE Padded(_, _)
Padded(rows, n) == IF Len(rows) >= n THEN rows ELSE Padded(Append(rows, BlankRow), n)

valuesUpdate(bk, title, idx, cells) ==
    LET rows == Padded(RowsOf(bk, title), idx) IN
    [bk EXCEPT ![SheetIndex(bk, title)].rows = [rows EXCEPT ![idx].cells = cells]]

\* spreadsheets.values.append on `${title}!A:D` with INSERT_ROWS
valuesAppend(bk, title, row) ==
    [bk EXCEPT ![SheetIndex(bk, title)].rows = Append(@, row)]

\* spreadsheets.batchUpdate({ deleteDimension: ROWS idx-1 .. idx }) on a sheet:
\* the rows below move up; a row below the data is an empty row of the grid.
deleteDimension(bk, title, idx) ==
    LET rows == RowsOf(bk, title) IN
    IF idx > Len(rows) THEN bk
    ELSE [bk EXCEPT ![SheetIndex(bk, title)].rows =
             SubSeq(rows, 1, idx - 1) \o SubSeq(rows, idx + 1, Len(rows))]

\* listAllNotes().rows: the values of A2:D with their row numbers.
listAllNotes(bk, title) ==
    LET rows == RowsOf(bk, title) IN
    [i \in 1..(IF Len(rows) > 0 THEN Len(rows) - 1 ELSE 0) |->
        [rowIndex |-> i + 1, title |-> rows[i + 1].cells[1],
         dateTime |-> rows[i + 1].cells[2], tag |-> rows[i + 1].cells[3],
         notes |-> rows[i + 1].cells[4], id |-> rows[i + 1].id]]

\* readNote({ rowIndex }): rows.find(r => r.rowIndex === Number(rowIndex)) || null
readNote(bk, title, idx) ==
    LET rows == listAllNotes(bk, title) IN
    IF idx \in 1..Len(rows) + 1 /\ idx >= 2 THEN Some(rows[idx - 1]) ELSE None

\* --- the requests ---

MaxNoteCalls == 2   \* /notes requests in flight together

NoteCallIds == 1..MaxNoteCalls

\* The identity of the note that call c appends.
NoteMadeBy(c) == 10 + c

NoteBody(rowIndex, title, notes, deleteFields) ==
    [rowIndex |-> rowIndex, title |-> title, tag |-> None, notes |-> notes,
     deleteFields |-> deleteFields]

CreateBodies ==
    { NoteBody(Undefined, None, None, {}),
      NoteBody(Undefined, None, Some("study css"), {}),
      NoteBody(Undefined, Some("mom"), Some("call ann"), {}) }

RowIndexInputs == {Undefined, Str("abc"), Num(1), Num(2), Num(3), Str("4")}

UpdateBodies ==
    UNION { { NoteBody(r, Some("mom"), None, {}),
              NoteBody(r, None, Some("call ann"), {"title", "TAG"}) } :
            r \in RowIndexInputs }

DeleteBodies == { NoteBody(r, None, None, {}) : r \in RowIndexInputs }

FreshCall ==
    [op |-> "none", pc |-> "idle", body |-> NoteBody(Undefined, None, None, {}),
     sheetTitle |-> "", idx |-> 0, values |-> <<>>, writes |-> <<>>,
     seen |-> 0, tail |-> 0, stored |-> FALSE, resp |-> None]

Answer(call, status, rowIndex, error) ==
    [call EXCEPT !.pc = "done",
                 !.resp = Some([status |-> status, rowIndex |-> rowIndex, error |-> error])]

Wrote(call, api, title, row) ==
    [call EXCEPT !.writes = Append(@, [api |-> api, sheet |-> title, row |-> row])]

\* Spreadsheets as a deployment finds them: a new one; one whose only sheet
\* holds the headers and two notes; one whose notes sheet comes second, after
\* a sheet of archived notes; one whose header cells were retitled by hand.
NoteBooks ==
    { <<[title |-> "Sheet1", rows |-> <<>>]>>,
      <<[title |-> "Maal Secretary Notes",
         rows |-> <<HeaderRow,
                    NoteRow(1, "mom", "2024-06-15 01:00", "Hanuman Life", "call ann"),
                    NoteRow(2, "study css", "2024-06-15 02:00", "Dev & Design Education",
                            "study css")>>]>>,
      <<[title |-> "Archive",
         rows |-> <<HeaderRow,
                    NoteRow(3, "General Note", "2024-06-14 01:00", "Krazy Monkee", ""),
                    NoteRow(4, "mom", "2024-06-14 02:00", "Hanuman Life", "")>>],
        [title |-> "Maal Secretary Notes",
         rows |-> <<HeaderRow,
                    NoteRow(1, "mom", "2024-06-15 01:00", "Hanuman Life", "call ann"),
                    NoteRow(2, "study css", "2024-06-15 02:00", "Dev & Design Education",
                            "study css")>>]>>,
      <<[title |-> "Sheet1",
         rows |-> <<[id |-> 0, created |-> "", cells |-> <<"Title", "When", "Tag", "Notes">>],
                    NoteRow(1, "mom", "2024-06-15 01:00", "Hanuman Life", "call ann")>>]>> }

NoteClock == {T0800, T0930}

InitNotes ==
    /\ clock \in NoteClock
    /\ hostOffset \in HostOffsets
    /\ book \in NoteBooks
    /\ ncalls = [c \in NoteCallIds |-> FreshCall]
    /\ WindowIdle /\ HelperIdle /\ PropsIdle /\ TodayIdle /\ PeriodIdle
    /\ RequestsIdle /\ ActionIdle

NoteTick ==
    /\ \E t \in NoteClock : t > clock /\ clock' = t
    /\ UNCHANGED <<notesVars, restNotes>>

\* The identity of the note in row idx of the notes sheet, 0 when there is none:
\* the note that readNote would return.
NoteAt(bk, idx) ==
    LET n == IF idx = None THEN None ELSE readNote(bk, getPrimarySheetTitle(bk), idx[1]) IN
    IF n = None THEN 0 ELSE n[1].id

\* What createNote and updateNote do once ensureHeaders() has returned, up to
\* their next await.
afterHeaders(call, now, host) ==
    IF call.op = "create"
    THEN LET title      == call.body.title
             notes      == call.body.notes[1]
             finalTitle == IF title # None /\ title[1] # "" THEN title[1]
                           ELSE generateTitle(notes)
             finalTag   == classifyTag(finalTitle, notes)
             fixedTimestamp == formatChicago(chicagoNow(now, host), host)
         IN  [call EXCEPT !.pc = "append",
                          !.values = <<finalTitle, fixedTimestamp, finalTag, notes>>]
    ELSE LET idx == ToNumber(call.body.rowIndex) IN
         IF BadRowIndex(idx) THEN Answer(call, 500, None, "rowIndex must be >= 2")
         ELSE [call EXCEPT !.pc = "read", !.idx = idx[1]]

\* POST /notes/create, /notes/update or /notes/delete arrives.  The route
\* answers 400 to a missing field; otherwise the operation runs up to its
\* first read of the sheet (the list of sheets never changes, so the reading
\* of it is part of this step).
NoteArrive(c) ==
    /\ ncalls[c].pc = "idle"
    /\ \E op \in {"create", "update", "delete"} :
       \E body \in (CASE op = "create" -> CreateBodies
                      [] op = "update" -> UpdateBodies
                      [] op = "delete" -> DeleteBodies) :
          LET call == [FreshCall EXCEPT !.op = op, !.body = body,
                           !.seen = NoteAt(book, ToNumber(body.rowIndex))]
              idx  == ToNumber(body.rowIndex)
          IN  ncalls' = [ncalls EXCEPT ![c] =
                  CASE op = "create" ->
                          IF body.notes = None \/ body.notes[1] = ""
                          THEN Answer(call, 400, None, "notes is required")
                          ELSE [call EXCEPT !.pc = "header",
                                            !.sheetTitle = getPrimarySheetTitle(book)]
                    [] op = "update" ->
                          IF Falsy(body.rowIndex)
                          THEN Answer(call, 400, None, "rowIndex is required")
                          ELSE [call EXCEPT !.pc = "header",
                                            !.sheetTitle = getPrimarySheetTitle(book)]
                    [] op = "delete" ->
                          IF Falsy(body.rowIndex)
                          THEN Answer(call, 400, None, "rowIndex is required")
                          ELSE IF BadRowIndex(idx)
                          THEN Answer(call, 500, None, "rowIndex must be >= 2")
                          ELSE [call EXCEPT !.pc = "delete", !.idx = idx[1],
                                            !.sheetTitle = deleteSheet(book)]]
    /\ UNCHANGED <<clock, book, restNotes>>

\* ensureHeaders(): the values of A1:D1 arrive.
NoteHeader(c) ==
    /\ ncalls[c].pc = "header"
    /\ ncalls' = [ncalls EXCEPT ![c] =
                    IF headersSame(book, @.sheetTitle)
                    THEN afterHeaders(@, clock, hostOffset)
                    ELSE [@ EXCEPT !.pc = "fixHeader"]]
    /\ UNCHANGED <<clock, book, restNotes>>

\* ensureHeaders(): the headers are written over row 1.
NoteFixHeader(c) ==
    /\ ncalls[c].pc = "fixHeader"
    /\ book' = valuesUpdate(book, ncalls[c].sheetTitle, 1, NOTE_HEADERS)
    /\ ncalls' = [ncalls EXCEPT ![c] =
                    afterHeaders(Wrote(@, "values.update", @.sheetTitle, 1),
                                 clock, hostOffset)]
    /\ UNCHANGED <<clock, restNotes>>

\* createNote: the row is appended.
NoteAppend(c) ==
    /\ ncalls[c].pc = "append"
    /\ LET call == ncalls[c]
           v    == call.values
       IN  /\ book' = valuesAppend(book, call.sheetTitle,
                                   NoteRow(NoteMadeBy(c), v[1], v[2], v[3], v[4]))
           /\ ncalls' = [ncalls EXCEPT ![c] =
                           [Wrote(call, "values.append", call.sheetTitle,
                                  Len(RowsOf(book, call.sheetTitle)) + 1)
                               EXCEPT !.pc = "list"]]
    /\ UNCHANGED <<clock, restNotes>>

\* createNote: listAllNotes() returns (its ensureHeaders() finds the headers
\* this call has already ensured) and the row number of the last row is sent.
NoteList(c) ==
    /\ ncalls[c].pc = "list"
    /\ LET call == ncalls[c]
           rows == listAllNotes(book, call.sheetTitle)
           rowIndex == IF rows = <<>> THEN None ELSE Some(rows[Len(rows)].rowIndex)
       IN  ncalls' = [ncalls EXCEPT ![c] =
                        Answer([call EXCEPT !.tail = NoteAt(book, rowIndex)],
                               200, rowIndex, "")]
    /\ UNCHANGED <<clock, book, restNotes>>

\* updateNote: readNote() returns; the row to write is put together.
NoteRead(c) ==
    /\ ncalls[c].pc = "read"
    /\ LET call    == ncalls[c]
           found   == readNote(book, call.sheetTitle, call.idx)
           current == found[1]
           toClear == {toUpperCase(f) : f \in call.body.deleteFields}
           pick(field, given, kept) ==
               IF field \in toClear THEN "" ELSE IF given # None THEN given[1] ELSE kept
           newTitle == pick("TITLE", call.body.title, current.title)
           newTag   == pick("TAG", call.body.tag, current.tag)
           newNotes == pick("NOTES", call.body.notes, current.notes)
           finalTitle == IF newTitle # "" THEN newTitle ELSE generateTitle(newNotes)
           finalTag   == IF newTag # "" THEN newTag ELSE classifyTag(finalTitle, newNotes)
       IN  ncalls' = [ncalls EXCEPT ![c] =
                        IF found = None
                        THEN Answer(call, 500, None, "Row not found")
                        ELSE [call EXCEPT !.pc = "write",
                                 !.values = <<finalTitle, current.dateTime, finalTag,
                                              newNotes>>]]
    /\ UNCHANGED <<clock, book, restNotes>>

\* updateNote: the row is written.
NoteWrite(c) ==
    /\ ncalls[c].pc = "write"
    /\ LET call == ncalls[c] IN
       /\ book' = valuesUpdate(book, call.sheetTitle, call.idx, call.values)
       /\ ncalls' = [ncalls EXCEPT ![c] =
                       Answer(Wrote(call, "values.update", call.sheetTitle, call.idx),
                              200, Some(call.idx), "")]
    /\ UNCHANGED <<clock, restNotes>>

\* deleteNote: the row is deleted.
NoteDelete(c) ==
    /\ ncalls[c].pc = "delete"
    /\ LET call == ncalls[c]
           bk   == deleteDimension(book, call.sheetTitle, call.idx)
       IN  /\ book' = bk
           /\ ncalls' = [ncalls EXCEPT ![c] =
                           Answer([Wrote(call, "deleteDimension", call.sheetTitle, call.idx)
                                      EXCEPT !.stored =
                                         \E i \in 1..Len(RowsOf(bk, getPrimarySheetTitle(bk))) :
                                            RowsOf(bk, getPrimarySheetTitle(bk))[i].id
                                                = call.seen],
                                  200, Some(call.idx), "")]
    /\ UNCHANGED <<clock, restNotes>>

NextNotes ==
    \/ NoteTick
    \/ \E c \in NoteCallIds :
          \/ NoteArrive(c) \/ NoteHeader(c) \/ NoteFixHeader(c) \/ NoteAppend(c)
          \/ NoteList(c) \/ NoteRead(c) \/ NoteWrite(c) \/ NoteDelete(c)

SpecNotes == InitNotes /\ [][NextNotes]_vars

---------------------------------------------------------------------------
(* Claims about the notes                                                  *)

NoteCallDone(c) == ncalls[c].pc = "done"

\* C23: after any createNote, updateNote and deleteNote requests, in any
\* interleaving, the Date & Time cell of every stored note holds the
\* timestamp the note was given when it was created.
C23_DateTimeKept ==
    \A s \in 1..Len(book) : \A i \in 1..Len(book[s].rows) :
        book[s].rows[i].id > 0 => book[s].rows[i].cells[2] = book[s].rows[i].created

\* C24: the rowIndex that createNote returns is the row of the note this call
\* appended, whatever other requests ran between its append and its re-read.
C24_RowIndexIsOwnRow ==
    \A c \in NoteCallIds :
        (NoteCallDone(c) /\ ncalls[c].op = "create" /\ ncalls[c].resp[1].status = 200)
            => /\ ncalls[c].resp[1].rowIndex # None
               /\ ncalls[c].tail = NoteMadeBy(c)

\* The request named no usable row or no stored note: it was answered with
\* one of the errors of the row checks.
RowRejected(c) ==
    /\ NoteCallDone(c) /\ ncalls[c].op \in {"update", "delete"}
    /\ ncalls[c].resp[1].status # 200

\* C25: an updateNote or deleteNote whose rowIndex is missing, non-numeric or
\* below 2, and an updateNote that finds no note at rowIndex, end in an error
\* and have written nothing to the sheet; row 1 is never written or deleted by
\* these operations.
C25_RejectedWithoutWrite ==
    \A c \in NoteCallIds :
        /\ (NoteCallDone(c) /\ ncalls[c].op \in {"update", "delete"}
              /\ BadRowIndex(ToNumber(ncalls[c].body.rowIndex)))
                => ncalls[c].resp[1].status # 200
        /\ RowRejected(c) => ncalls[c].writes = <<>>
        /\ ncalls[c].op \in {"update", "delete"} =>
              \A i \in 1..Len(ncalls[c].writes) : ncalls[c].writes[i].row # 1

\* C26: after deleteNote(k) has succeeded, the note that readNote(k) returned
\* when the request arrived is no longer stored in the notes sheet.
C26_DeletedNoteGone ==
    \A c \in NoteCallIds :
        (NoteCallDone(c) /\ ncalls[c].op = "delete" /\ ncalls[c].resp[1].status = 200
            /\ ncalls[c].seen > 0)
            => ~ncalls[c].stored

---------------------------------------------------------------------------
(* The clock reading of /analysis/today against its window                *)

\* C27: in /analysis/today the instant that splits overdue from scheduled,
\* read after the item fetch has completed, lies within the today window
\* [start, end] computed before the fetch, however long the fetch took.
C27_NowWithinWindow ==
    Answered200 => (twin[1].start <= tnow[1] /\ tnow[1] <= twin[1].end)

\* The fetched item whose id a coach line carries.
ItemOf(ln) == titems[CHOOSE i \in 1..Len(titems) : titems[i].id = ln.id]

\* C28: in every daily focus report each line in overdue has suggestReminder
\* false, each scheduled line of an item without an instant has it false, and
\* each scheduled line of an item with an instant has it true exactly when its
\* primary instant is strictly after the reference instant.
C28_ReminderOnlyAhead ==
    Answered200 =>
        LET b == tresp[1].body IN
        /\ \A j \in 1..Len(b.overdue) : ~b.overdue[j].suggestReminder
        /\ \A j \in 1..Len(b.scheduled) :
              LET t == PrimaryInstant(ItemOf(b.scheduled[j])) IN
              /\ t = None => ~b.scheduled[j].suggestReminder
              /\ t # None => (b.scheduled[j].suggestReminder <=> t[1] > tnow[1])

\* A report with an overdue line, a scheduled line of an item due at the
\* reference instant itself (no reminder) and one of an item ahead (reminder).
C28_Witness ==
    /\ Answered200
    /\ Len(tresp[1].body.overdue) = 1
    /\ Len(tresp[1].body.scheduled) = 2
    /\ \E j \in 1..2 :
          /\ PrimaryInstant(ItemOf(tresp[1].body.scheduled[j])) = Some(tnow[1])
          /\ ~tresp[1].body.scheduled[j].suggestReminder
    /\ \E j \in 1..2 :
          /\ InstantFor(ItemOf(tresp[1].body.scheduled[j]), "do") = None
          /\ tresp[1].body.scheduled[j].suggestReminder

---------------------------------------------------------------------------
(* The /actionBase write endpoints against the remote workspace.  A page   *)
(* of the workspace holds its properties, its icon, its archived flag and  *)
(* the blocks appended to it.  Each handler is one step; `fail` names the  *)
(* request to the workspace that is answered with an error, if any.        *)

\* Emoji are written by name: fire, phone, calendar, receipt, monkey, brain,
\* pray and check stand for the eight emoji of the source.
Emoji(name) == [type |-> "emoji", emoji |-> name]

\* iconForActionBase({ type, alignment, priorityLevel })
iconForActionBase(a) ==
    IF a.priorityLevel = Some("HIGH") THEN Emoji("fire")
    ELSE IF a.type = Some("Call") THEN Emoji("phone")
    ELSE IF a.type = Some("Event") THEN Emoji("calendar")
    ELSE IF a.type = Some("Errand") THEN Emoji("receipt")
    ELSE IF a.alignment = Some("KRAZY MONKEE") THEN Emoji("monkey")
    ELSE IF a.alignment = Some("DEV ED") THEN Emoji("brain")
    ELSE IF a.alignment = Some("HANUMAN LIFE") THEN Emoji("pray")
    ELSE Emoji("check")

\* A request body: every field the six endpoints read, absent ones as None.
EmptyBody ==
    [pageId |-> None, pageTitle |-> None, name |-> None, status |-> None, type |-> None,
     priorityLevel |-> None, alignment |-> None, doDate |-> None, dueDate |-> None,
     projectAttributePageId |-> None, properties |-> None, text |-> None,
     which |-> None, date |-> None, time |-> None]

\* The fields of a body that buildActionBaseProperties reads.
PayloadOf(body) ==
    [k \in {"name", "status", "type", "priorityLevel", "alignment", "doDate", "dueDate",
            "projectAttributePageId"} |-> body[k]]

\* A field is truthy: present and not the empty string.
Given(v) == v # None /\ v[1] # ""

\* --- the workspace ---

SEARCH == [method |-> "POST", path |-> "/search"]
QUERY == [method |-> "POST", path |-> "/databases/{id}/query"]
CREATE_PAGE == [method |-> "POST", path |-> "/pages"]
PATCH_PAGE == [method |-> "PATCH", path |-> "/pages/{id}"]
PATCH_BLOCKS == [method |-> "PATCH", path |-> "/blocks/{id}/children"]

MaxActionPages == 1   \* pages the database comes to hold

PageId(n) == "p" \o ToString(n)

\* The stored value of a select property, if one is chosen.
SelectOf(pg, key) ==
    IF key \in DOMAIN pg.properties THEN Some(pg.properties[key].select.name) ELSE None

\* The title of a stored page.
TitleOf(pg) ==
    IF "Name" \in DOMAIN pg.properties
    THEN pg.properties["Name"].title[1].text.content ELSE ""

\* POST /pages: the page is added to the database.
createPage(pages, icon, properties) ==
    Append(pages, [id |-> PageId(Len(pages) + 1), properties |-> properties,
                   icon |-> icon, archived |-> FALSE, blocks |-> <<>>,
                   cleared |-> FALSE])

PageIndex(pages, pid) == CHOOSE i \in 1..Len(pages) : pages[i].id = pid

\* The workspace accepts a write to a page it holds that is not archived.
Writable(pages, pid) ==
    \E i \in 1..Len(pages) : pages[i].id = pid /\ ~pages[i].archived

\* PATCH /pages/{id} with { properties, icon? }: the properties named are
\* replaced, the others stay; the icon is replaced when one is sent.
patchPage(pages, pid, properties, icon) ==
    LET i  == PageIndex(pages, pid)
        pg == pages[i]
    IN  [pages EXCEPT ![i] =
            [pg EXCEPT !.properties =
                          [k \in DOMAIN pg.properties \cup DOMAIN properties |->
                              IF k \in DOMAIN properties THEN properties[k]
                              ELSE pg.properties[k]],
                       !.icon = IF icon = None THEN pg.icon ELSE icon[1]]]

\* PATCH /pages/{id} with emptied properties: they lose their value.
clearPage(pages, pid, names) ==
    LET i  == PageIndex(pages, pid)
        pg == pages[i]
    IN  [pages EXCEPT ![i] =
            [pg EXCEPT !.properties = [k \in DOMAIN pg.properties \ names |->
                                          pg.properties[k]],
                       !.cleared = TRUE]]

\* PATCH /pages/{id} with { archived: true }
archivePage(pages, pid) == [pages EXCEPT ![PageIndex(pages, pid)].archived = TRUE]

\* PATCH /blocks/{id}/children
appendBlock(pages, pid, block) ==
    [pages EXCEPT ![PageIndex(pages, pid)].blocks = Append(@, block)]

\* findPageInDbByTitle: the first page of the query whose title equals pageTitle
\* (a query does not return archived pages).
findPageInDbByTitle(pages, pageTitle) ==
    LET hits == {i \in 1..Len(pages) : ~pages[i].archived /\ TitleOf(pages[i]) = pageTitle}
    IN  IF hits = {} THEN None
        ELSE Some(pages[CHOOSE i \in hits : \A j \in hits : i <= j])

\* --- the handlers ---

Failures == {"none", "search", "query", "write"}

Outcome(bs, calls, status) == [base |-> bs, calls |-> calls, status |-> status]

\* The common opening of the handlers: findDatabaseByName, then the page id
\* from pageId or from a query by pageTitle.  status 0: the handler goes on.
resolvePage(bs, body, fail, calls0) ==
    LET calls1 == Append(calls0, SEARCH)
        calls2 == Append(calls1, QUERY)
        page   == findPageInDbByTitle(bs[1], body.pageTitle[1])
    IN  IF fail = "search" THEN [status |-> 500, calls |-> calls1, pid |-> ""]
        ELSE IF bs = None THEN [status |-> 404, calls |-> calls1, pid |-> ""]
        ELSE IF Given(body.pageId) THEN [status |-> 0, calls |-> calls1, pid |-> body.pageId[1]]
        ELSE IF ~Given(body.pageTitle) THEN [status |-> 400, calls |-> calls1, pid |-> ""]
        ELSE IF fail = "query" THEN [status |-> 500, calls |-> calls2, pid |-> ""]
        ELSE IF page = None THEN [status |-> 404, calls |-> calls2, pid |-> ""]
        ELSE [status |-> 0, calls |-> calls2, pid |-> page[1].id]

\* The closing write of a handler: the request is sent; the workspace refuses
\* it for a page it does not hold or has archived, and notion() throws.
sendWrite(bs, r, call, fail, after) ==
    LET calls == Append(r.calls, call) IN
    IF fail = "write" \/ ~Writable(bs[1], r.pid) THEN Outcome(bs, calls, 500)
    ELSE Outcome(Some(after), calls, 200)

\* createItem with the page created before the name is looked at.
createItemPostFirst(bs, body, fail) ==
    LET calls1 == <<SEARCH>>
        calls2 == <<SEARCH, CREATE_PAGE>>
        properties  == buildActionBaseProperties(PayloadOf(body), "server.js")
        icon   == iconForActionBase([type |-> body.type, alignment |-> body.alignment,
                                     priorityLevel |-> body.priorityLevel])
    IN  IF fail = "search" THEN Outcome(bs, calls1, 500)
        ELSE IF bs = None THEN Outcome(bs, calls1, 404)
        ELSE IF fail = "write" THEN Outcome(bs, calls2, 500)
        ELSE IF "Name" \notin DOMAIN properties
             THEN Outcome(Some(createPage(bs[1], icon, properties)), calls2, 400)
        ELSE Outcome(Some(createPage(bs[1], icon, properties)), calls2, 200)

\* POST /actionBase/createItem
createItem(bs, body, fail) ==
    LET calls1 == <<SEARCH>>
        calls2 == <<SEARCH, CREATE_PAGE>>
        properties  == buildActionBaseProperties(PayloadOf(body), "server.js")
        icon   == iconForActionBase([type |-> body.type, alignment |-> body.alignment,
                                     priorityLevel |-> body.priorityLevel])
    IN  IF fail = "search" THEN Outcome(bs, calls1, 500)
        ELSE IF bs = None THEN Outcome(bs, calls1, 404)
        ELSE IF "Name" \notin DOMAIN properties THEN Outcome(bs, calls1, 400)
        ELSE IF fail = "write" THEN Outcome(bs, calls2, 500)
        ELSE Outcome(Some(createPage(bs[1], icon, properties)), calls2, 200)

\* POST /actionBase/updateItem
updateItem(bs, body, fail) ==
    LET r     == resolvePage(bs, body, fail, <<>>)
        properties == buildActionBaseProperties(PayloadOf(body), "server.js")
        icon  == IF Given(body.type) \/ Given(body.alignment) \/ Given(body.priorityLevel)
                 THEN Some(iconForActionBase([type |-> body.type,
                                              alignment |-> body.alignment,
                                              priorityLevel |-> body.priorityLevel]))
                 ELSE None
    IN  IF r.status # 0 THEN Outcome(bs, r.calls, r.status)
        ELSE sendWrite(bs, r, PATCH_PAGE, fail, patchPage(bs[1], r.pid, properties, icon))

\* POST /actionBase/clearProperties
clearProperties(bs, body, fail) ==
    LET r == resolvePage(bs, body, fail, <<>>) IN
    IF body.properties = None \/ body.properties[1] = <<>> THEN Outcome(bs, <<>>, 400)
    ELSE IF r.status # 0 THEN Outcome(bs, r.calls, r.status)
    ELSE sendWrite(bs, r, PATCH_PAGE, fail,
                   clearPage(bs[1], r.pid,
                             {body.properties[1][i] : i \in 1..Len(body.properties[1])}))

\* POST /actionBase/deleteItem
deleteItem(bs, body, fail) ==
    LET r == resolvePage(bs, body, fail, <<>>) IN
    IF r.status # 0 THEN Outcome(bs, r.calls, r.status)
    ELSE sendWrite(bs, r, PATCH_PAGE, fail, archivePage(bs[1], r.pid))

\* POST /actionBase/pageAppend
pageAppend(bs, body, fail) ==
    LET r == resolvePage(bs, body, fail, <<>>) IN
    IF ~Given(body.text) THEN Outcome(bs, <<>>, 400)
    ELSE IF r.status # 0 THEN Outcome(bs, r.calls, r.status)
    ELSE sendWrite(bs, r, PATCH_BLOCKS, fail,
                   appendBlock(bs[1], r.pid, [text |-> body.text[1]]))

\* POST /actionBase/addDateMention
addDateMention(bs, body, fail) ==
    LET r == resolvePage(bs, body, fail, <<>>) IN
    IF body.which \notin {Some("do"), Some("due")} THEN Outcome(bs, <<>>, 400)
    ELSE IF ~Truthy(body.date) THEN Outcome(bs, <<>>, 400)
    ELSE IF r.status # 0 THEN Outcome(bs, r.calls, r.status)
    ELSE sendWrite(bs, r, PATCH_BLOCKS, fail,
                   appendBlock(bs[1], r.pid,
                       [text |-> IF body.which = Some("do") THEN "Reminder for Do Date: "
                                 ELSE "Reminder for Due Date: ",
                        mention |-> toISOLocal(body.date[1], body.time)]))

\* --- the requests ---

MaxBlocks == 1   \* blocks appended to one page

Targets ==
    { EmptyBody,
      [EmptyBody EXCEPT !.pageId = Some("p1")],
      [EmptyBody EXCEPT !.pageId = Some("p2")],
      [EmptyBody EXCEPT !.pageTitle = Some("a")],
      [EmptyBody EXCEPT !.pageTitle = Some("zz")] }

CreateItemBodies ==
    { [EmptyBody EXCEPT !.name = Some("a"), !.priorityLevel = pr, !.type = ty,
                        !.alignment = al] :
        pr \in {None, Some("HIGH")}, ty \in {None, Some("Call")},
        al \in {None, Some("DEV ED")} }
    \cup { [EmptyBody EXCEPT !.type = Some("Call")] }

UpdateItemBodies ==
    UNION { { [t EXCEPT !.type = Some("Event")],
              [t EXCEPT !.priorityLevel = Some("LOW")],
              [t EXCEPT !.status = Some("Done")] } : t \in Targets }

ClearPropertiesBodies ==
    { [t EXCEPT !.properties = ps] :
        t \in Targets, ps \in {None, Some(<<>>), Some(<<"Type">>), Some(<<"Priority Level", "Name">>)} }

PageAppendBodies == { [t EXCEPT !.text = x] : t \in Targets, x \in {None, Some("hi")} }

AddDateMentionBodies ==
    { [t EXCEPT !.which = w, !.date = d] :
        t \in Targets, w \in {None, Some("do"), Some("sometime")},
        d \in {None, Some(ISOText([m |-> 6, d |-> 15, y |-> 2024]))} }

\* The database is shared with the integration and empty, or it is not shared.
InitAction ==
    /\ base \in {None, Some(<<>>)}
    /\ alast = None
    /\ EnvIdle /\ WindowIdle /\ HelperIdle /\ PropsIdle /\ TodayIdle /\ PeriodIdle
    /\ RequestsIdle /\ NotesIdle

\* The pages and their blocks stay within the bounds.
WithinBounds(bs) ==
    bs # None =>
        /\ Len(bs[1]) <= MaxActionPages
        /\ \A i \in 1..Len(bs[1]) : Len(bs[1][i].blocks) <= MaxBlocks

Answered(endpoint, out) ==
    Some([endpoint |-> endpoint, status |-> out.status, calls |-> out.calls])

CreateItem ==
    \E body \in CreateItemBodies, fail \in Failures :
        LET out == createItem(base, body, fail) IN
        /\ WithinBounds(out.base)
        /\ base' = out.base
        /\ alast' = Answered("createItem", out)
        /\ UNCHANGED restAction

UpdateItem ==
    \E body \in UpdateItemBodies, fail \in Failures :
        LET out == updateItem(base, body, fail) IN
        /\ WithinBounds(out.base)
        /\ base' = out.base
        /\ alast' = Answered("updateItem", out)
        /\ UNCHANGED restAction

ClearProperties ==
    \E body \in ClearPropertiesBodies, fail \in Failures :
        LET out == clearProperties(base, body, fail) IN
        /\ WithinBounds(out.base)
        /\ base' = out.base
        /\ alast' = Answered("clearProperties", out)
        /\ UNCHANGED restAction

DeleteItem ==
    \E body \in Targets, fail \in Failures :
        LET out == deleteItem(base, body, fail) IN
        /\ WithinBounds(out.base)
        /\ base' = out.base
        /\ alast' = Answered("deleteItem", out)
        /\ UNCHANGED restAction

PageAppend ==
    \E body \in PageAppendBodies, fail \in Failures :
        LET out == pageAppend(base, body, fail) IN
        /\ WithinBounds(out.base)
        /\ base' = out.base
        /\ alast' = Answered("pageAppend", out)
        /\ UNCHANGED restAction

AddDateMention ==
    \E body \in AddDateMentionBodies, fail \in Failures :
        LET out == addDateMention(base, body, fail) IN
        /\ WithinBounds(out.base)
        /\ base' = out.base
        /\ alast' = Answered("addDateMention", out)
        /\ UNCHANGED restAction

NextAction ==
    \/ CreateItem \/ UpdateItem \/ ClearProperties \/ DeleteItem \/ PageAppend
    \/ AddDateMention

SpecAction == InitAction /\ [][NextAction]_vars

---------------------------------------------------------------------------
(* Claims about the /actionBase write endpoints                            *)

\* C29: after any sequence of createItem and updateItem requests on an item,
\* its icon is iconForActionBase of its current priority level, type and
\* alignment.
C29_IconFollowsFields ==
    base # None =>
        \A i \in 1..Len(base[1]) :
            ~base[1][i].cleared =>
                base[1][i].icon =
                    iconForActionBase([type |-> SelectOf(base[1][i], "Type"),
                                       alignment |-> SelectOf(base[1][i], "Alignment"),
                                       priorityLevel |-> SelectOf(base[1][i], "Priority Level")])

\* A request that creates or patches something in the workspace.
IsWrite(call) == call.method = "PATCH" \/ call = CREATE_PAGE

\* C30: when an /actionBase write endpoint answers 400 or 404, it has sent no
\* create and no patch request to the workspace during that request.
C30_RejectedSendsNoWrite ==
    (alast # None /\ alast[1].status \in {400, 404}) =>
        \A i \in 1..Len(alast[1].calls) : ~IsWrite(alast[1].calls[i])

\* updateItem has answered 404 for a page title that the query did not find:
\* the search and the query were sent, nothing else.
C30_Witness ==
    /\ alast # None /\ alast[1].endpoint = "updateItem" /\ alast[1].status = 404
    /\ alast[1].calls = <<SEARCH, QUERY>>
    /\ base # None /\ Len(base[1]) = 1

====
